---- MODULE Spec2Model ----
(***************************************************************************)
(* Model of claude-codex-bridge: the in-memory ResultCache (cache.py), the *)
(* process invoker invoke_codex_cli and the codex_delegate pipeline        *)
(* (bridge_server.py).                                                     *)
(*                                                                         *)
(* Time is the value time.time() returns, in whole seconds; it never runs  *)
(* backwards.  Operations that happen between two ticks read the same      *)
(* value ("immediately").  SHA-256 and MD5 are taken as collision-free:    *)
(* a digest is modelled by the value it is the digest of.                  *)
(***************************************************************************)
EXTENDS Integers, Sequences, FiniteSets, TLC

VARIABLES
    cache,      \* ResultCache.cache: the dict, as its insertion-ordered items
    ttl,        \* ResultCache.ttl
    max_size,   \* ResultCache.max_size
    now,        \* the clock, time.time()
    fs,         \* the filesystem: what a walk of each directory finds
    last,       \* the ResultCache call that has just returned, if any
    environ,    \* os.environ["CODEX_ALLOW_WRITE"] (None: not set)
    pc,         \* per task: where its codex_delegate / invoke_codex_cli call stands
    call,       \* per task: the codex_delegate call, its arguments and locals
    inv,        \* per task: the invoke_codex_cli call, its arguments and outcome
    proc,       \* per task: the subprocess it launched
    reply       \* per task: what codex_delegate returned

cacheVars == <<cache, ttl, max_size, last>>

taskVars == <<environ, pc, call, inv, proc, reply>>

vars == <<cache, ttl, max_size, now, fs, last, environ, pc, call, inv, proc, reply>>

-----------------------------------------------------------------------------
(* Bounds of the model *)

MaxTime == 2
MaxTTL == 1
MaxCapacity == 2

-----------------------------------------------------------------------------
(* Values *)

\* Python's None (a return value, an absent argument)
None == "None"

Dirs == {"/w"}
Results == {"R1", "R2"}

\* What a walk of a directory finds: a tree of tracked files (named by its
\* content), or a failure that escapes the walk
Trees == {"A", "B"}
Unwalkable == "unwalkable"
DirStates == Trees \cup {Unwalkable}

\* The parameter tuples the cache is called with
Params(task, sandbox_mode) ==
    [task |-> task, directory |-> "/w", exec_mode |-> "on-failure",
     sandbox_mode |-> sandbox_mode, output_format |-> "diff"]

\* The parameter tuples set is called with, and one more that only get is
\* called with
SetParams ==
    {Params("t1", "read-only"), Params("t2", "read-only"), Params("t1", "workspace-write")}

GetParams == SetParams \cup {Params("t2", "workspace-write")}

\* The calls of set: every tuple of SetParams with the first result, and one
\* of them with either result (the cache never looks into a result)
SetCalls ==
    {c \in SetParams \X Results : c[2] = "R1" \/ c[1] = Params("t1", "read-only")}

-----------------------------------------------------------------------------
(* ResultCache: pure helpers *)

\* _generate_cache_key: sha256 of the JSON of the six fields, keys sorted.
\* The digest is modelled by the record it is computed from (field order is
\* immaterial in a record, as it is after sort_keys=True).
GenerateCacheKey(task, directory, exec_mode, sandbox_mode, output_format, files_hash) ==
    [task |-> task, directory |-> directory, exec_mode |-> exec_mode,
     sandbox_mode |-> sandbox_mode, output_format |-> output_format,
     files_hash |-> IF files_hash \in {None, ""} THEN "none" ELSE files_hash]

-----------------------------------------------------------------------------
(* Directory trees as os.walk reads them *)

\* In the specifications of the cache and of the server a tree is a letter
\* and its digest the letter tagged; here a tree is what os.walk reads: for
\* the top directory and for each subdirectory the names in the order the
\* filesystem lists them.
\* A file holds one of two contents; two of the files can hold either.
HashDirs == {"/w", "/v"}
RootFileNames == {"a.py", "b.py"}
SubdirNames == {"x", "y"}
SubFileNames == {"c.py"}
FileContent == "x = 1"
Contents == {FileContent, "x = 2"}

\* The relative paths a tree can hold, and those whose content varies
Paths == {"a.py", "b.py", "x/c.py", "y/c.py"}
EditedPaths == {"a.py", "x/c.py"}

Range(s) == {s[i] : i \in DOMAIN s}

\* The orders in which a directory holding some of the names S can be listed
Listings(S) ==
    {s \in UNION {[1..n -> S] : n \in 0..Cardinality(S)} :
        \A i, j \in DOMAIN s : i # j => s[i] # s[j]}

\* The content of the file at path in a tree, None where the tree has no
\* such file
FileAt(t, path) ==
    LET present == CASE path = "a.py" -> "a.py" \in Range(t.files)
                     [] path = "b.py" -> "b.py" \in Range(t.files)
                     [] path = "x/c.py" -> "x" \in Range(t.dirs) /\ "c.py" \in Range(t.sub["x"])
                     [] path = "y/c.py" -> "y" \in Range(t.dirs) /\ "c.py" \in Range(t.sub["y"])
    IN IF present THEN t.content[path] ELSE None

\* The trees whose file names are all valid UTF-8: the content of a file
\* that is absent, or that is not one of the edited ones, is the first
WalkableTrees ==
    {t \in [files : Listings(RootFileNames), dirs : Listings(SubdirNames),
            sub : [SubdirNames -> Listings(SubFileNames)],
            content : [Paths -> Contents], encodable : {TRUE},
            unreadable : {{}}] :
        /\ \A n \in SubdirNames \ Range(t.dirs) : t.sub[n] = <<>>
        /\ \A path \in Paths :
               (path \notin EditedPaths \/ FileAt(t, path) = None)
                   => t.content[path] = FileContent}

\* Trees that hold one more file, whose name is no valid UTF-8: on them the
\* function falls back to the time
UnencodableTrees ==
    {[t EXCEPT !.encodable = FALSE] :
        t \in {u \in WalkableTrees : u.dirs = <<>> /\ "b.py" \notin Range(u.files)}}

\* The trees of the model
HashTrees == WalkableTrees \cup UnencodableTrees

\* Two trees hold the same relative paths (with the same contents)
SameTree(a, b) ==
    /\ a.encodable = b.encodable
    /\ a.content = b.content
    /\ Range(a.files) = Range(b.files)
    /\ Range(a.dirs) = Range(b.dirs)
    /\ \A n \in SubdirNames : Range(a.sub[n]) = Range(b.sub[n])

\* The order of Python's string comparison on the names of the model
NameRank(name) ==
    CASE name = ".env" -> 1
      [] name = "a.py" -> 2
      [] name = "b.py" -> 3
      [] name = "c.py" -> 4
      [] name = "m.pyc" -> 5
      [] OTHER -> 6

\* sorted(files)
Sorted(s) ==
    CHOOSE p \in [DOMAIN s -> Range(s)] :
        /\ Range(p) = Range(s)
        /\ \A i, j \in DOMAIN p : i < j => NameRank(p[i]) < NameRank(p[j])

\* The directories the walk does not enter, and the files it skips
IgnoredDir(name) == name \in {".git", ".venv", "node_modules", "__pycache__"}
SkippedFile(name) == name \in {".env", "m.pyc"}

\* hashlib.md5(file_content).hexdigest()
Md5(content) == "md5(" \o content \o ")"

\* The records of the files of one directory, the names sorted, as if a
\* file that cannot be opened were read like any other
RECURSIVE FileRecordsReadingAll(_, _, _)
FileRecordsReadingAll(tree, prefix, names) ==
    IF names = <<>>
    THEN <<>>
    ELSE (IF SkippedFile(Head(names))
          THEN <<>>
          ELSE <<prefix \o Head(names) \o ":"
                 \o Md5(tree.content[prefix \o Head(names)])>>)
         \o FileRecordsReadingAll(tree, prefix, Tail(names))

\* The records of the files of one directory, the names sorted:
\* f"{relative_path}:{file_hash}"; a file whose open raises adds none
RECURSIVE FileRecords(_, _, _)
FileRecords(tree, prefix, names) ==
    IF names = <<>>
    THEN <<>>
    ELSE (IF SkippedFile(Head(names))
             \/ (prefix \o Head(names)) \in tree.unreadable
          THEN <<>>
          ELSE <<prefix \o Head(names) \o ":"
                 \o Md5(tree.content[prefix \o Head(names)])>>)
         \o FileRecords(tree, prefix, Tail(names))

\* The records of the subdirectories, in the order os.walk enters them: the
\* order of the listing, which the function filters and does not sort
RECURSIVE SubdirRecords(_, _)
SubdirRecords(tree, dirs) ==
    IF dirs = <<>>
    THEN <<>>
    ELSE FileRecords(tree, Head(dirs) \o "/", Sorted(tree.sub[Head(dirs)]))
         \o SubdirRecords(tree, Tail(dirs))

\* "|".join(file_hashes)
RECURSIVE Join(_)
Join(records) ==
    IF records = <<>> THEN ""
    ELSE IF Len(records) = 1 THEN Head(records)
    ELSE Head(records) \o "|" \o Join(Tail(records))

\* _calculate_directory_hash on a tree
DirectoryHash(tree) ==
    IF ~tree.encodable
    THEN ToString(now)
    ELSE "sha256(" \o Join(FileRecords(tree, "", Sorted(tree.files))
                           \o SubdirRecords(tree, SelectSeq(tree.dirs,
                                                   LAMBDA d : ~IgnoredDir(d))))
         \o ")"

\* What os.walk finds under directory: the tree of a directory of the model,
\* and no file under any other path (os.walk ignores the errors of listing)
Walk(directory) == IF directory \in DOMAIN fs THEN fs[directory] ELSE ""

\* _calculate_directory_hash: the sha256 of the joined file records, or, when
\* the walk raises, str(int(time.time())). Where the filesystem of a
\* specification holds trees, the digest is that of the tree; where it
\* holds a letter for each tree, the digest is the letter tagged.
CalculateDirectoryHash(directory) ==
    IF DOMAIN fs = HashDirs /\ directory \in HashDirs
    THEN DirectoryHash(fs[directory])
    ELSE IF Walk(directory) = Unwalkable
         THEN ToString(now)
         ELSE "sha256:" \o Walk(directory)

\* The key get and set derive for parameters p in the current state
KeyOf(p) ==
    GenerateCacheKey(p.task, p.directory, p.exec_mode, p.sandbox_mode,
                     p.output_format, CalculateDirectoryHash(p.directory))

\* dict operations on the insertion-ordered items
Keys(c) == {c[i].key : i \in 1..Len(c)}

IndexOf(c, k) == CHOOSE i \in 1..Len(c) : c[i].key = k

Entry(c, k) == c[IndexOf(c, k)]

\* del c[k]
Delete(c, k) == SelectSeq(c, LAMBDA e : e.key # k)

\* (mutant) setdefault: a key already stored keeps its old entry
StoreKeepExisting(c, e) ==
    IF e.key \in Keys(c) THEN c ELSE Append(c, e)

\* (mutant) an overwrite that keeps the creation time of the old entry
StoreKeepingCreation(c, e) ==
    IF e.key \in Keys(c)
    THEN [c EXCEPT ![IndexOf(c, e.key)] = [e EXCEPT !.timestamp = Entry(c, e.key).timestamp]]
    ELSE Append(c, e)

\* c[k] = entry: an existing key keeps its place, a new key goes last
Store(c, e) ==
    IF e.key \in Keys(c)
    THEN [c EXCEPT ![IndexOf(c, e.key)] = e]
    ELSE Append(c, e)

\* (mutant) the age counted from the last read: a read postpones expiry
ExpiredSinceAccess(e) == now - e.last_accessed > ttl

\* time.time() - entry["timestamp"] > self.ttl
Expired(e) == now - e.timestamp > ttl

\* (mutant) eviction by creation time: least recently inserted
EvictionRankByCreation(e) == e.timestamp

\* The eviction order of _evict_oldest
EvictionRank(e) == e.last_accessed

\* min(self.cache.keys(), key=...): the first key, in dict order, of least rank
OldestKey(c) ==
    LET i == CHOOSE i \in 1..Len(c) :
                 /\ \A j \in 1..Len(c) : EvictionRank(c[i]) <= EvictionRank(c[j])
                 /\ \A j \in 1..(i - 1) : EvictionRank(c[j]) > EvictionRank(c[i])
    IN c[i].key

\* _evict_oldest
EvictOldest(c) == IF c = <<>> THEN c ELSE Delete(c, OldestKey(c))

\* The capacity test of set
CacheFull(c) == Len(c) >= max_size

\* The entry set stores
NewEntry(k, result) ==
    [key |-> k, result |-> result, timestamp |-> now, last_accessed |-> now]

\* (mutant) a hit that restarts the TTL of the entry
TouchedRestartingTTL(e) == [e EXCEPT !.last_accessed = now, !.timestamp = now]

\* The entry get leaves behind on a hit
Touched(e) == [e EXCEPT !.last_accessed = now]

-----------------------------------------------------------------------------
(* ResultCache: operations *)

\* The absent key and entry of a call record
NoKey == GenerateCacheKey(None, None, None, None, None, None)

NoEntry == [key |-> NoKey, result |-> None, timestamp |-> 0, last_accessed |-> 0]

NoCall ==
    [op |-> "none", key |-> NoKey, value |-> None, ret |-> None, count |-> 0,
     removed |-> NoEntry, replaced |-> NoEntry, size |-> 0, just_set |-> None,
     at |-> 0, dir |-> None]

\* A call of op: the key it derived (NoKey for the calls that take no
\* parameters), the value passed in, what it returned (ret, or count for
\* cleanup_expired), the entry it deleted (set: the one _evict_oldest chose,
\* get: the expired one), the entry a set found under its key, the number of
\* entries before the call, the time and the directory state of the call;
\* just_set is the value passed to the set call that returned just before
\* this one, if that call had the parameters of this one
Called(op, k, value, ret, count, removed, replaced) ==
    [op |-> op, key |-> k, value |-> value, ret |-> ret, count |-> count,
     removed |-> removed, replaced |-> replaced, size |-> Len(cache),
     just_set |-> IF /\ op = "get"
                     /\ last.op = "set"
                     /\ [last.key EXCEPT !.files_hash = ""] = [k EXCEPT !.files_hash = ""]
                  THEN last.value ELSE None,
     at |-> now,
     dir |-> IF k = NoKey THEN None ELSE Walk(k.directory)]

\* ResultCache.get on the dict c: the dict afterwards, the value returned and
\* the expired entry deleted
CacheGet(c, p) ==
    LET k == KeyOf(p) IN
    IF k \notin Keys(c)
    THEN [cache |-> c, key |-> k, ret |-> None, removed |-> NoEntry]
    ELSE IF Expired(Entry(c, k))
    THEN [cache |-> Delete(c, k), key |-> k, ret |-> None, removed |-> Entry(c, k)]
    ELSE [cache |-> [c EXCEPT ![IndexOf(c, k)] = Touched(@)], key |-> k,
          ret |-> Entry(c, k).result, removed |-> NoEntry]

\* ResultCache.set on the dict c: the dict afterwards and the entry evicted
CacheSet(c, p, result) ==
    LET k == KeyOf(p)
        full == CacheFull(c)
        kept == IF full THEN EvictOldest(c) ELSE c
    IN [cache |-> Store(kept, NewEntry(k, result)), key |-> k,
        removed |-> IF full /\ c # <<>> THEN Entry(c, OldestKey(c)) ELSE NoEntry,
        replaced |-> IF k \in Keys(c) THEN Entry(c, k) ELSE NoEntry]

\* A call of ResultCache.get
Get(p) ==
    LET r == CacheGet(cache, p) IN
    /\ cache' = r.cache
    /\ last' = Called("get", r.key, None, r.ret, 0, r.removed, NoEntry)
    /\ UNCHANGED <<ttl, max_size, now, fs, taskVars>>

\* A call of ResultCache.set
Set(p, result) ==
    LET r == CacheSet(cache, p, result) IN
    /\ cache' = r.cache
    /\ last' = Called("set", r.key, result, None, 0, r.removed, r.replaced)
    /\ UNCHANGED <<ttl, max_size, now, fs, taskVars>>

\* cleanup_expired as it would be with >= for > in its test
CleanupExpiredAtTTL ==
    /\ cache' = SelectSeq(cache, LAMBDA e : now - e.timestamp < ttl)
    /\ last' = Called("cleanup_expired", NoKey, None, None,
                      Len(SelectSeq(cache, LAMBDA e : now - e.timestamp >= ttl)),
                      NoEntry, NoEntry)
    /\ UNCHANGED <<ttl, max_size, now, fs, taskVars>>

\* ResultCache.cleanup_expired
CleanupExpired ==
    /\ cache' = SelectSeq(cache, LAMBDA e : ~Expired(e))
    /\ last' = Called("cleanup_expired", NoKey, None, None,
                      Len(SelectSeq(cache, LAMBDA e : Expired(e))), NoEntry, NoEntry)
    /\ UNCHANGED <<ttl, max_size, now, fs, taskVars>>

\* clear as it would be if it removed the expired entries only
ClearExpiredOnly ==
    /\ cache' = SelectSeq(cache, LAMBDA e : ~Expired(e))
    /\ last' = Called("clear", NoKey, None, None, 0, NoEntry, NoEntry)
    /\ UNCHANGED <<ttl, max_size, now, fs, taskVars>>

\* ResultCache.clear
Clear ==
    /\ cache' = <<>>
    /\ last' = Called("clear", NoKey, None, None, 0, NoEntry, NoEntry)
    /\ UNCHANGED <<ttl, max_size, now, fs, taskVars>>

-----------------------------------------------------------------------------
(* The environment *)

\* The clock advances
Tick ==
    /\ now < MaxTime
    /\ now' = now + 1
    /\ last' = NoCall
    /\ UNCHANGED <<cache, ttl, max_size, fs, taskVars>>

-----------------------------------------------------------------------------
(* The cache used through its own interface *)

\* ResultCache.__init__, with any ttl and capacity (none is rejected), over
\* a working directory that can be fingerprinted or one whose walk fails
Init ==
    /\ cache = <<>>
    /\ ttl \in 0..MaxTTL
    /\ max_size \in 0..MaxCapacity
    /\ now = 0
    /\ fs \in [Dirs -> {"A", Unwalkable}]
    /\ last = NoCall
    /\ environ = None
    /\ pc = <<>>
    /\ call = <<>>
    /\ inv = <<>>
    /\ proc = <<>>
    /\ reply = <<>>

DoGet == \E p \in GetParams : Get(p)

DoSet == \E c \in SetCalls : Set(c[1], c[2])

Next ==
    \/ DoGet
    \/ DoSet
    \/ CleanupExpired
    \/ Clear
    \/ Tick

Spec == Init /\ [][Next]_vars

-----------------------------------------------------------------------------
(* Properties of the cache (under Spec) *)

\* The parameters a key was derived from
ParamsOf(k) ==
    [task |-> k.task, directory |-> k.directory, exec_mode |-> k.exec_mode,
     sandbox_mode |-> k.sandbox_mode, output_format |-> k.output_format]

\* C1: whenever a set call has returned, the cache holds at most max_size
\* entries.
C1_CapacityAfterSet == last.op = "set" => Len(cache) <= max_size

\* C1 fails only for a capacity below 1: this is the bound the code keeps.
C1_CapacityAfterSetPositive ==
    (last.op = "set" /\ max_size >= 1) => Len(cache) <= max_size

\* C2: whenever set evicts, the entry it removes has a last_accessed that is
\* minimal among the entries stored at that moment (those still stored, and
\* the one the set overwrote); it removes exactly that entry, whose key is
\* gone afterwards unless it is the key being set.
C2_EvictsLeastRecentlyAccessed ==
    (last.op = "set" /\ last.removed # NoEntry) =>
        LET ev == last.removed
            others == {cache[i] : i \in {j \in 1..Len(cache) : cache[j].key # last.key}}
                      \cup (IF last.replaced # NoEntry THEN {last.replaced} ELSE {})
        IN /\ \A e \in others : ev.last_accessed <= e.last_accessed
           /\ ev.key # last.key => ev.key \notin Keys(cache)
           /\ last.key \in Keys(cache)
           /\ Len(cache) = last.size - 1
                  + (IF last.replaced # NoEntry /\ last.replaced # ev THEN 0 ELSE 1)

\* C2 witness: a set into a cache of capacity 2 has evicted an entry while
\* the entry ahead of it in insertion order, read since, was kept.
C2_Witness ==
    /\ last.op = "set"
    /\ last.removed # NoEntry
    /\ max_size = 2
    /\ Len(cache) = 2
    /\ cache[1].key # last.key
    /\ cache[1].timestamp <= last.removed.timestamp
    /\ cache[1].last_accessed > last.removed.last_accessed

C4_TTLExpiry ==
    last.op = "get" =>
        /\ last.removed # NoEntry =>
               last.at - last.removed.timestamp > ttl /\ last.ret = None
        /\ IF last.key \in Keys(cache)
           THEN /\ last.ret = Entry(cache, last.key).result
                /\ last.at - Entry(cache, last.key).timestamp <= ttl
           ELSE last.ret = None

\* C4 witness: a get has found its entry expired, removed it and returned
\* None, the entry having been read within its ttl before.
C4_Witness ==
    /\ last.op = "get"
    /\ last.ret = None
    /\ last.removed # NoEntry
    /\ last.removed.last_accessed > last.removed.timestamp
    /\ last.key \notin Keys(cache)

-----------------------------------------------------------------------------
(* invoke_codex_cli: values *)

\* The default of the timeout parameter
DefaultTimeout == 300

Prompts == {"Analyze code", "-a do something", "--"}
ExecutionModes == {"on-failure", "never"}
SandboxModes == {"read-only", "workspace-write", "danger-full-access"}
Timeouts == {1, DefaultTimeout}

\* What create_subprocess_exec finds: the executable and the directory, no
\* codex on the PATH, or no such directory to start it in
Launches == {"ok", "no codex", "no cwd"}

\* Bytes that are not UTF-8
InvalidUtf8 == "<0xff>"

\* What a process leaves behind when it exits (valid UTF-8 bytes are
\* modelled by the text they encode)
Returncodes == {0, 1}
Stdouts == {"plan\n"}
Stderrs == {"", "warn\n", " \n", InvalidUtf8}

\* str.strip on the texts of the model
Strip(s) ==
    CASE s = "plan\n" -> "plan"
      [] s = "warn\n" -> "warn"
      [] s = " \n" -> ""
      [] OTHER -> s

\* (mutant) the delimiter left out
BuildCommandNoDelimiter(prompt, working_directory, execution_mode, sandbox_mode, allow_write) ==
    <<"codex", "exec", "-C", working_directory>>
    \o (IF ~allow_write THEN <<"-c", "sandbox_permissions=[]">> ELSE <<>>)
    \o <<"-s", sandbox_mode>>
    \o <<prompt>>

\* (mutant) permissions stripped only when a writing sandbox mode is asked for
BuildCommandStripIfWriting(prompt, working_directory, execution_mode, sandbox_mode, allow_write) ==
    <<"codex", "exec", "-C", working_directory>>
    \o (IF ~allow_write /\ sandbox_mode # "read-only"
        THEN <<"-c", "sandbox_permissions=[]">> ELSE <<>>)
    \o <<"-s", sandbox_mode>>
    \o <<"--", prompt>>

\* (mutant) the convenience flag whenever the two modes ask for it, with or
\* without write permission
BuildCommandFullAutoWithoutWrite(prompt, working_directory, execution_mode, sandbox_mode, allow_write) ==
    <<"codex", "exec", "-C", working_directory>>
    \o (IF ~allow_write THEN <<"-c", "sandbox_permissions=[]">> ELSE <<>>)
    \o (IF execution_mode = "on-failure" /\ sandbox_mode = "workspace-write"
        THEN <<"--full-auto">>
        ELSE <<"-s", sandbox_mode>>)
    \o <<"--", prompt>>

\* The argument vector invoke_codex_cli builds
BuildCommand(prompt, working_directory, execution_mode, sandbox_mode, allow_write) ==
    <<"codex", "exec">>
    \o <<"-C", working_directory>>
    \o (IF ~allow_write THEN <<"-c", "sandbox_permissions=[]">> ELSE <<>>)
    \o (IF /\ execution_mode = "on-failure"
           /\ sandbox_mode = "workspace-write"
           /\ allow_write
        THEN <<"--full-auto">>
        ELSE <<"-s", sandbox_mode>>)
    \o <<"--">>
    \o <<prompt>>

\* How a call of invoke_codex_cli ends: the pair it returns or the exception
\* it raises
NoOutcome == [kind |-> "none", exc |-> None, message |-> None, stdout |-> None, stderr |-> None]

Returned(stdout, stderr) ==
    [kind |-> "success", exc |-> None, message |-> None, stdout |-> stdout, stderr |-> stderr]

Raised(kind, exc, message) ==
    [kind |-> kind, exc |-> exc, message |-> message, stdout |-> None, stderr |-> None]

\* The RuntimeError raised for a nonzero exit code
ExecutionFailed(returncode, stderr) ==
    Raised("failed", "RuntimeError",
           "Codex CLI execution failed (exit code: " \o ToString(returncode) \o "): "
           \o (IF stderr # "" THEN Strip(stderr) ELSE "Unknown error"))

\* The TimeoutError raised at the end of the timeout handler
TimedOut(timeout) ==
    Raised("timed-out", "TimeoutError",
           "Codex CLI execution timed out (exceeded " \o ToString(timeout) \o " seconds)")

\* The RuntimeError raised for FileNotFoundError
CommandNotFound ==
    Raised("tool-not-found", "RuntimeError",
           "codex command not found. Please ensure OpenAI Codex CLI is "
           \o "installed: npm install -g @openai/codex")

\* process.terminate() or process.kill() on a transport already closed
ProcessLookupError == Raised("error", "ProcessLookupError", "")

\* The task awaiting the call was cancelled
Cancelled == Raised("cancelled", "CancelledError", "")

\* bytes.decode("utf-8") raised
UnicodeDecodeError ==
    Raised("error", "UnicodeDecodeError",
           "'utf-8' codec can't decode byte 0xff in position 0: invalid start byte")

\* The outcome once communicate() has returned: stderr is decoded for the
\* message of a nonzero exit code, both streams for the pair returned
Completed(p) ==
    IF p.returncode # 0
    THEN IF p.stderr = InvalidUtf8
         THEN UnicodeDecodeError
         ELSE ExecutionFailed(p.returncode, p.stderr)
    ELSE IF InvalidUtf8 \in {p.stdout, p.stderr}
         THEN UnicodeDecodeError
         ELSE Returned(p.stdout, p.stderr)

\* No call of invoke_codex_cli, and no process
NoInvocation ==
    [prompt |-> None, working_directory |-> None, execution_mode |-> None,
     sandbox_mode |-> None, allow_write |-> FALSE, timeout |-> 0,
     command |-> <<>>, events |-> <<>>, outcome |-> NoOutcome]

NoProcess ==
    [state |-> "none", cwd |-> None, closed |-> FALSE, returncode |-> 0,
     stdout |-> "", stderr |-> ""]

\* (mutant) FileNotFoundError not caught
StartInvocationUncaught(prompt, working_directory, execution_mode, sandbox_mode, allow_write, timeout, found) ==
    LET command == BuildCommand(prompt, working_directory, execution_mode,
                                sandbox_mode, allow_write)
        started == [prompt |-> prompt, working_directory |-> working_directory,
                    execution_mode |-> execution_mode, sandbox_mode |-> sandbox_mode,
                    allow_write |-> allow_write, timeout |-> timeout,
                    command |-> command, events |-> <<>>, outcome |-> NoOutcome]
    IN IF found = "ok"
       THEN [inv |-> [started EXCEPT !.events = <<"spawn">>],
             proc |-> [NoProcess EXCEPT !.state = "running",
                                        !.cwd = working_directory]]
       ELSE [inv |-> [started EXCEPT !.events = <<found>>,
                                     !.outcome = Raised("error", "FileNotFoundError", found)],
             proc |-> NoProcess]

\* invoke_codex_cli up to its first suspension: the command is built and
\* handed to create_subprocess_exec, which starts the process or raises
\* FileNotFoundError; the events of the call begin with the launch, or
\* with what made it fail
StartInvocation(prompt, working_directory, execution_mode, sandbox_mode, allow_write, timeout, found) ==
    LET command == BuildCommand(prompt, working_directory, execution_mode,
                                sandbox_mode, allow_write)
        started == [prompt |-> prompt, working_directory |-> working_directory,
                    execution_mode |-> execution_mode, sandbox_mode |-> sandbox_mode,
                    allow_write |-> allow_write, timeout |-> timeout,
                    command |-> command, events |-> <<>>, outcome |-> NoOutcome]
    IN IF found = "ok"
       THEN [inv |-> [started EXCEPT !.events = <<"spawn">>],
             proc |-> [NoProcess EXCEPT !.state = "running",
                                        !.cwd = working_directory]]
       ELSE [inv |-> [started EXCEPT !.events = <<found>>,
                                     !.outcome = CommandNotFound],
             proc |-> NoProcess]

-----------------------------------------------------------------------------
(* codex_delegate: values and pure helpers *)

\* A key a dict does not have, and JSON's null
Absent == "<absent>"
Null == "null"

\* The arguments codex_delegate is called with
TaskDescriptions == {"t1"}

\* The task descriptions of concurrent requests
ConcurrentTaskDescriptions == TaskDescriptions \cup {"t2", "t3"}
DelegateExecutionModes == {"on-failure"}
DelegateSandboxModes == {"read-only", "workspace-write"}
OutputFormats == {"diff"}

\* The directories that exist, and the paths codex_delegate is called with
ExistingDirs == Dirs \cup {"/etc", "//etc", "/w/../etc", "/etc/ssl", "/etcetera"}

\* The files that exist
ExistingFiles == {"/w/f"}
DelegateDirs == {"/w", "/etc", "w"}

\* The values of CODEX_ALLOW_WRITE (None: not set)
EnvironValues == {None, "TRUE", "1"}

\* The characters of the paths of the model
Chars(path) ==
    CASE path = "/w" -> <<"/", "w">>
      [] path = "w" -> <<"w">>
      [] path = "/etc" -> <<"/", "e", "t", "c">>
      [] path = "/usr/bin" -> <<"/", "u", "s", "r", "/", "b", "i", "n">>
      [] path = "/bin" -> <<"/", "b", "i", "n">>
      [] path = "/sbin" -> <<"/", "s", "b", "i", "n">>
      [] path = "/root" -> <<"/", "r", "o", "o", "t">>
      [] path = "/gone" -> <<"/", "g", "o", "n", "e">>
      [] path = "/w/f" -> <<"/", "w", "/", "f">>
      [] path = "//etc" -> <<"/", "/", "e", "t", "c">>
      [] path = "/w/../etc" -> <<"/", "w", "/", ".", ".", "/", "e", "t", "c">>
      [] path = "/etc/ssl" -> <<"/", "e", "t", "c", "/", "s", "s", "l">>
      [] path = "/etcetera" -> <<"/", "e", "t", "c", "e", "t", "e", "r", "a">>

\* str.startswith, on characters
StartsWith(chars, prefix) ==
    /\ Len(prefix) <= Len(chars)
    /\ SubSeq(chars, 1, Len(prefix)) = prefix

DangerousPaths == {"/etc", "/usr/bin", "/bin", "/sbin", "/root"}

\* (mutant) every directory accepted
ValidateAnyDirectory(directory) == TRUE

\* os.path.normpath on the paths of the model: ".." and the directory
\* before it are dropped; two leading slashes are kept, as POSIX allows
Normpath(path) == IF path = "/w/../etc" THEN "/etc" ELSE path

\* DelegationDecisionEngine.validate_working_directory
ValidateWorkingDirectory(directory) ==
    /\ Chars(directory)[1] = "/"
    /\ directory \in ExistingDirs \cup ExistingFiles
    /\ directory \in ExistingDirs
    /\ \A dangerous \in DangerousPaths :
           ~StartsWith(Chars(Normpath(directory)), Chars(dangerous))

\* str.lower on the values of the environment variable
Lower(s) == IF s \in {"TRUE", "True"} THEN "true" ELSE s

\* os.environ.get("CODEX_ALLOW_WRITE", "false").lower() == "true"
AllowWrite(env) == Lower(IF env = None THEN "false" ELSE env) = "true"

\* (mutant) the requested mode taken as it is
RequestedSandboxMode(sandbox_mode, allow_write) == sandbox_mode

\* effective_sandbox_mode
EffectiveSandboxMode(sandbox_mode, allow_write) ==
    IF ~allow_write /\ sandbox_mode # "read-only" THEN "read-only" ELSE sandbox_mode

\* mode_notice (the dict is modelled by its "mode"; None by Absent)
ModeNotice(sandbox_mode, allow_write) ==
    IF ~allow_write /\ sandbox_mode # "read-only" THEN "planning" ELSE Absent

\* No parameters passed to the cache
NoParams == ParamsOf(NoKey)

\* No call of codex_delegate
NoDelegate ==
    [active |-> FALSE, task_description |-> None, working_directory |-> None,
     execution_mode |-> None, sandbox_mode |-> None, output_format |-> None,
     allow_write |-> FALSE, effective_sandbox_mode |-> None, mode_notice |-> Absent,
     looked_up |-> NoParams, cached_result |-> None, stored |-> NoParams,
     cache_error |-> None]

\* The arguments and locals of codex_delegate once the modes are settled
DelegateLocals(task_description, working_directory, execution_mode, sandbox_mode, output_format, allow_write) ==
    [NoDelegate EXCEPT
        !.active = TRUE,
        !.task_description = task_description,
        !.working_directory = working_directory,
        !.execution_mode = execution_mode,
        !.sandbox_mode = sandbox_mode,
        !.output_format = output_format,
        !.allow_write = allow_write,
        !.effective_sandbox_mode = EffectiveSandboxMode(sandbox_mode, allow_write),
        !.mode_notice = ModeNotice(sandbox_mode, allow_write)]

\* The parameters codex_delegate passes to result_cache.get and .set
CacheParams(c) ==
    [task |-> c.task_description, directory |-> c.working_directory,
     exec_mode |-> c.execution_mode, sandbox_mode |-> c.effective_sandbox_mode,
     output_format |-> c.output_format]

\* The keys of the dicts codex_delegate returns as JSON
NoDict ==
    [status |-> Absent, type |-> Absent, content |-> Absent, format |-> Absent,
     detected_type |-> Absent, working_directory |-> Absent,
     execution_mode |-> Absent, sandbox_mode |-> Absent,
     requested_sandbox_mode |-> Absent, optimization_note |-> Absent,
     original_task |-> Absent, codex_prompt |-> Absent, operation_mode |-> Absent,
     stderr |-> Absent, cache_hit |-> Absent, cache_note |-> Absent,
     message |-> Absent, error_type |-> Absent]

\* The output type parse_codex_output detects in the texts of the model
OutputType(stdout) == "explanation"

\* parse_codex_output
ParseCodexOutput(stdout, output_format) ==
    [NoDict EXCEPT
        !.status = "success",
        !.type = OutputType(stdout),
        !.content = Strip(stdout),
        !.format = output_format,
        !.detected_type = OutputType(stdout)]

\* The result of a successful invocation (codex_prompt is the task
\* description: prepare_codex_prompt passes it through)
SuccessResult(c, outcome) ==
    [ParseCodexOutput(outcome.stdout, c.output_format) EXCEPT
        !.working_directory = c.working_directory,
        !.execution_mode = c.execution_mode,
        !.sandbox_mode = c.effective_sandbox_mode,
        !.requested_sandbox_mode = c.sandbox_mode,
        !.optimization_note = Null,
        !.original_task = c.task_description,
        !.codex_prompt = Null,
        !.operation_mode = c.mode_notice,
        !.stderr = IF Strip(outcome.stderr) # "" THEN Strip(outcome.stderr) ELSE Absent,
        !.cache_hit = "false"]

\* The error_result of an invocation that raised
ErrorResult(c, outcome) ==
    [NoDict EXCEPT
        !.status = "error",
        !.message = outcome.message,
        !.error_type = outcome.exc,
        !.working_directory = c.working_directory,
        !.execution_mode = c.execution_mode,
        !.sandbox_mode = c.effective_sandbox_mode,
        !.requested_sandbox_mode = c.sandbox_mode,
        !.optimization_note = "",
        !.operation_mode = c.mode_notice]

\* The error_result for a rejected working directory
InvalidDirectoryResult(working_directory) ==
    [NoDict EXCEPT
        !.status = "error",
        !.message = "Invalid or unsafe working directory: " \o working_directory,
        !.error_type = "invalid_directory"]

\* The cached dict as a hit returns it
CacheHitResult(d) ==
    [d EXCEPT !.cache_hit = "true", !.cache_note = "This result comes from the cache"]

\* json.dumps: the text of a dict
JsonDumps(d) == ToString(d)

\* The dicts whose text the cache can hold
JsonDicts ==
    {SuccessResult(DelegateLocals(td, wd, em, sm, of, aw), Returned(so, se)) :
        td \in ConcurrentTaskDescriptions, wd \in Dirs, em \in DelegateExecutionModes,
        sm \in DelegateSandboxModes, of \in OutputFormats, aw \in BOOLEAN,
        so \in Stdouts, se \in Stderrs \ {InvalidUtf8}}

\* json.loads: the dict of a text, where the text is one (JSONDecodeError
\* otherwise)
JsonValid(s) == \E d \in JsonDicts : JsonDumps(d) = s

JsonLoads(s) == CHOOSE d \in JsonDicts : JsonDumps(d) = s

\* (mutant) the cache consulted but its answer ignored
CacheMiss(cached_result) == FALSE

\* The test a cached result passes to be returned: `if cached_result:` and
\* json.loads succeeding
CacheHit(cached_result) ==
    /\ cached_result \notin {None, ""}
    /\ JsonValid(cached_result)

\* What codex_delegate gave back: the JSON it returned or the exception that
\* escaped it
NoReply == [returned |-> None, raised |-> None]

\* An exception raised inside result_cache.get or result_cache.set while
\* the key is computed, before the dictionary is touched
CacheError == "Exception"

\* (mutant) result_cache.set called without its own try: the exception
\* reaches the handler of the execution errors
DelegateContinuesStoreUnguarded(t, outcome) ==
    LET c == call[t] IN
    IF outcome.kind = "success"
    THEN \E set_raises \in BOOLEAN :
         LET result_json == JsonDumps(SuccessResult(c, outcome))
             r == CacheSet(cache, CacheParams(c), result_json)
         IN IF set_raises
            THEN /\ call' = [call EXCEPT ![t].cache_error = CacheError]
                 /\ reply' = [reply EXCEPT ![t].returned =
                                 JsonDumps(ErrorResult(c, Raised("error", CacheError, "")))]
                 /\ UNCHANGED <<cache, last>>
            ELSE /\ cache' = r.cache
                 /\ last' = Called("set", r.key, result_json, None, 0,
                                   r.removed, r.replaced)
                 /\ call' = [call EXCEPT ![t].stored = CacheParams(c)]
                 /\ reply' = [reply EXCEPT ![t].returned = result_json]
    ELSE /\ reply' = IF outcome.exc = "CancelledError"
                     THEN [reply EXCEPT ![t].raised = outcome.exc]
                     ELSE [reply EXCEPT ![t].returned = JsonDumps(ErrorResult(c, outcome))]
         /\ UNCHANGED <<cache, last, call>>

\* (mutant) the reply stored whatever the outcome
DelegateContinuesStoringErrors(t, outcome) ==
    LET c == call[t]
        result_json == IF outcome.kind = "success"
                       THEN JsonDumps(SuccessResult(c, outcome))
                       ELSE JsonDumps(ErrorResult(c, outcome))
        r == CacheSet(cache, CacheParams(c), result_json)
    IN /\ cache' = r.cache
       /\ last' = Called("set", r.key, result_json, None, 0, r.removed, r.replaced)
       /\ call' = [call EXCEPT ![t].stored = CacheParams(c)]
       /\ reply' = [reply EXCEPT ![t].returned = result_json]

\* codex_delegate after invoke_codex_cli: a result is parsed, stored in the
\* cache and returned; an Exception is returned as an error_result; a
\* CancelledError escapes
DelegateContinues(t, outcome) ==
    LET c == call[t] IN
    IF outcome.kind = "success"
    THEN \E set_raises \in BOOLEAN :
         LET result_json == JsonDumps(SuccessResult(c, outcome))
             r == CacheSet(cache, CacheParams(c), result_json)
         IN /\ IF set_raises
               THEN /\ call' = [call EXCEPT ![t].cache_error = CacheError]
                    /\ UNCHANGED <<cache, last>>
               ELSE /\ cache' = r.cache
                    /\ last' = Called("set", r.key, result_json, None, 0,
                                      r.removed, r.replaced)
                    /\ call' = [call EXCEPT ![t].stored = CacheParams(c)]
            /\ reply' = [reply EXCEPT ![t].returned = result_json]
    ELSE /\ reply' = IF outcome.exc = "CancelledError"
                     THEN [reply EXCEPT ![t].raised = outcome.exc]
                     ELSE [reply EXCEPT ![t].returned = JsonDumps(ErrorResult(c, outcome))]
         /\ UNCHANGED <<cache, last, call>>

-----------------------------------------------------------------------------
(* invoke_codex_cli: the steps between its suspensions *)

\* codex_delegate as it would be if it launched the tool again after a
\* failure
FinishRetrying(t, outcome) ==
    IF /\ call[t].active
       /\ outcome.kind \in {"failed", "timed-out"}
       /\ Len(SelectSeq(inv[t].events, LAMBDA e : e = "spawn")) = 1
    THEN /\ inv' = [inv EXCEPT ![t].events = Append(@, "spawn")]
         /\ pc' = [pc EXCEPT ![t] = "communicate"]
         /\ UNCHANGED <<cache, last, call, reply>>
         /\ UNCHANGED <<ttl, max_size, now, fs, environ>>
    ELSE /\ inv' = [inv EXCEPT ![t].outcome = outcome]
         /\ pc' = [pc EXCEPT ![t] = "done"]
         /\ IF call[t].active
            THEN DelegateContinues(t, outcome)
            ELSE UNCHANGED <<cache, last, call, reply>>
         /\ UNCHANGED <<ttl, max_size, now, fs, environ>>

\* invoke_codex_cli ends with outcome; a codex_delegate call awaiting it
\* runs on to its return
Finish(t, outcome) ==
    /\ inv' = [inv EXCEPT ![t].outcome = outcome]
    /\ pc' = [pc EXCEPT ![t] = "done"]
    /\ IF call[t].active
       THEN DelegateContinues(t, outcome)
       ELSE UNCHANGED <<cache, last, call, reply>>
    /\ UNCHANGED <<ttl, max_size, now, fs, environ>>

\* A direct call of invoke_codex_cli
Invoke(t, prompt, working_directory, execution_mode, sandbox_mode, allow_write, timeout, found) ==
    /\ pc[t] = "idle"
    /\ LET s == StartInvocation(prompt, working_directory, execution_mode,
                                sandbox_mode, allow_write, timeout, found)
       IN /\ inv' = [inv EXCEPT ![t] = s.inv]
          /\ proc' = [proc EXCEPT ![t] = s.proc]
          /\ pc' = [pc EXCEPT ![t] = IF s.inv.outcome = NoOutcome
                                     THEN "communicate" ELSE "done"]
    /\ UNCHANGED <<cache, ttl, max_size, now, fs, last, environ, call, reply>>

\* The process exits; the event loop's child watcher collects its status
ProcessExits(t, returncode, stdout, stderr) ==
    /\ proc[t].state = "running"
    /\ proc' = [proc EXCEPT ![t].state = "exited", ![t].returncode = returncode,
                            ![t].stdout = stdout, ![t].stderr = stderr]
    /\ inv' = [inv EXCEPT ![t].events = Append(@, "exit")]
    /\ UNCHANGED <<cache, ttl, max_size, now, fs, last, environ, pc, call, reply>>

\* The pipes of an exited process reach end of file and its transport closes
TransportCloses(t) ==
    /\ proc[t].state = "exited"
    /\ ~proc[t].closed
    /\ proc' = [proc EXCEPT ![t].closed = TRUE]
    /\ UNCHANGED <<cache, ttl, max_size, now, fs, last, environ, pc, call, inv, reply>>

\* communicate() returns: the exit code is checked
CommunicateReturns(t) ==
    /\ pc[t] = "communicate"
    /\ proc[t].closed
    /\ Finish(t, Completed(proc[t]))
    /\ UNCHANGED proc

\* The timeout passes with communicate() pending: wait_for cancels it and
\* waits for the cancellation
TimeoutFires(t) ==
    /\ pc[t] = "communicate"
    /\ ~proc[t].closed
    /\ pc' = [pc EXCEPT ![t] = "cancelling"]
    /\ inv' = [inv EXCEPT ![t].events = Append(@, "timeout")]
    /\ UNCHANGED <<cache, ttl, max_size, now, fs, last, environ, call, proc, reply>>

\* The timeout handler starts: process.terminate(), which signals a process
\* that runs, does nothing for one that has exited, and raises on a closed
\* transport; then the wait of the grace period begins
Terminate(t) ==
    /\ pc[t] = "cancelling"
    /\ IF proc[t].closed
       THEN Finish(t, ProcessLookupError)
       ELSE /\ pc' = [pc EXCEPT ![t] = "grace"]
            /\ inv' = [inv EXCEPT ![t].events =
                          IF proc[t].state = "running" THEN Append(@, "terminate") ELSE @]
            /\ UNCHANGED <<cache, ttl, max_size, now, fs, last, environ, call, reply>>
    /\ UNCHANGED proc

\* The grace period passes with process.wait() pending: wait_for cancels it
GraceExpires(t) ==
    /\ pc[t] = "grace"
    /\ proc[t].state = "running"
    /\ pc' = [pc EXCEPT ![t] = "grace cancelling"]
    /\ inv' = [inv EXCEPT ![t].events = Append(@, "grace timeout")]
    /\ UNCHANGED <<cache, ttl, max_size, now, fs, last, environ, call, proc, reply>>

\* process.kill(), then the wait without a limit begins
Kill(t) ==
    /\ pc[t] = "grace cancelling"
    /\ IF proc[t].closed
       THEN Finish(t, ProcessLookupError)
       ELSE /\ pc' = [pc EXCEPT ![t] = "killed"]
            /\ inv' = [inv EXCEPT ![t].events =
                          IF proc[t].state = "running" THEN Append(@, "kill") ELSE @]
            /\ UNCHANGED <<cache, ttl, max_size, now, fs, last, environ, call, reply>>
    /\ UNCHANGED proc

\* process.wait() returns, within the grace period or after the kill: the
\* TimeoutError is raised
WaitReturns(t) ==
    /\ pc[t] \in {"grace", "killed"}
    /\ proc[t].state = "exited"
    /\ Finish(t, TimedOut(inv[t].timeout))
    /\ UNCHANGED proc

\* The task awaiting invoke_codex_cli is cancelled at one of its
\* suspensions: CancelledError passes through, no handler catches it
Cancel(t) ==
    /\ pc[t] \in {"communicate", "cancelling", "grace", "grace cancelling", "killed"}
    /\ Finish(t, Cancelled)
    /\ UNCHANGED proc

-----------------------------------------------------------------------------
(* invoke_codex_cli called directly *)

InvokeTasks == {"i1"}

InvokeInit ==
    /\ cache = <<>>
    /\ ttl = MaxTTL
    /\ max_size = MaxCapacity
    /\ now = 0
    /\ fs = [d \in Dirs |-> "A"]
    /\ last = NoCall
    /\ environ = None
    /\ pc = [t \in InvokeTasks |-> "idle"]
    /\ call = [t \in InvokeTasks |-> NoDelegate]
    /\ inv = [t \in InvokeTasks |-> NoInvocation]
    /\ proc = [t \in InvokeTasks |-> NoProcess]
    /\ reply = [t \in InvokeTasks |-> NoReply]

DoInvoke ==
    \E t \in DOMAIN pc, prompt \in Prompts, working_directory \in Dirs,
       execution_mode \in ExecutionModes, sandbox_mode \in SandboxModes,
       allow_write \in BOOLEAN, timeout \in Timeouts, found \in Launches :
        Invoke(t, prompt, working_directory, execution_mode, sandbox_mode,
               allow_write, timeout, found)

DoProcessExits ==
    \E t \in DOMAIN pc, returncode \in Returncodes, stdout \in Stdouts,
       stderr \in Stderrs :
        ProcessExits(t, returncode, stdout, stderr)

DoTransportCloses == \E t \in DOMAIN pc : TransportCloses(t)

DoCommunicateReturns == \E t \in DOMAIN pc : CommunicateReturns(t)

DoTimeoutFires == \E t \in DOMAIN pc : TimeoutFires(t)

DoTerminate == \E t \in DOMAIN pc : Terminate(t)

DoGraceExpires == \E t \in DOMAIN pc : GraceExpires(t)

DoKill == \E t \in DOMAIN pc : Kill(t)

DoWaitReturns == \E t \in DOMAIN pc : WaitReturns(t)

DoCancel == \E t \in DOMAIN pc : Cancel(t)

\* The steps of a call in flight and of its process
InvocationStep ==
    \/ DoProcessExits
    \/ DoTransportCloses
    \/ DoCommunicateReturns
    \/ DoTimeoutFires
    \/ DoTerminate
    \/ DoGraceExpires
    \/ DoKill
    \/ DoWaitReturns

InvokeNext ==
    \/ DoInvoke
    \/ InvocationStep

\* Calls that are awaited to their end
InvokeSpec == InvokeInit /\ [][InvokeNext]_vars

CancelNext ==
    \/ InvokeNext
    \/ DoCancel

\* Calls whose awaiting task can be cancelled
CancelSpec == InvokeInit /\ [][CancelNext]_vars

-----------------------------------------------------------------------------
(* codex_delegate *)

\* codex_delegate up to its first suspension: the directory is validated,
\* the modes are settled, the cache is consulted and, on a miss, the process
\* is launched; an exception raised by result_cache.get, which no try
\* encloses, escapes
CodexDelegate(t, task_description, working_directory, execution_mode, sandbox_mode, output_format, found, get_raises) ==
    /\ pc[t] = "idle"
    /\ IF ~ValidateWorkingDirectory(working_directory)
       THEN /\ call' = [call EXCEPT ![t] =
                           [NoDelegate EXCEPT !.active = TRUE,
                                              !.task_description = task_description,
                                              !.working_directory = working_directory,
                                              !.execution_mode = execution_mode,
                                              !.sandbox_mode = sandbox_mode,
                                              !.output_format = output_format]]
            /\ reply' = [reply EXCEPT ![t].returned =
                            JsonDumps(InvalidDirectoryResult(working_directory))]
            /\ pc' = [pc EXCEPT ![t] = "done"]
            /\ UNCHANGED <<cache, last, inv, proc>>
       ELSE LET c == DelegateLocals(task_description, working_directory, execution_mode,
                                    sandbox_mode, output_format, AllowWrite(environ))
                g == CacheGet(cache, CacheParams(c))
            IN IF get_raises
               THEN /\ call' = [call EXCEPT ![t] =
                                   [c EXCEPT !.looked_up = CacheParams(c),
                                             !.cache_error = CacheError]]
                    /\ reply' = [reply EXCEPT ![t].raised = CacheError]
                    /\ pc' = [pc EXCEPT ![t] = "done"]
                    /\ UNCHANGED <<cache, last, inv, proc>>
               ELSE
               /\ cache' = g.cache
               /\ last' = Called("get", g.key, None, g.ret, 0, g.removed, NoEntry)
               /\ call' = [call EXCEPT ![t] =
                              [c EXCEPT !.looked_up = CacheParams(c),
                                        !.cached_result = g.ret]]
               /\ IF CacheHit(g.ret)
                  THEN /\ reply' = [reply EXCEPT ![t].returned =
                                       JsonDumps(CacheHitResult(JsonLoads(g.ret)))]
                       /\ pc' = [pc EXCEPT ![t] = "done"]
                       /\ UNCHANGED <<inv, proc>>
                  ELSE LET s == StartInvocation(task_description, working_directory,
                                                execution_mode, c.effective_sandbox_mode,
                                                c.allow_write, DefaultTimeout, found)
                       IN /\ inv' = [inv EXCEPT ![t] = s.inv]
                          /\ proc' = [proc EXCEPT ![t] = s.proc]
                          /\ IF s.inv.outcome = NoOutcome
                             THEN /\ pc' = [pc EXCEPT ![t] = "communicate"]
                                  /\ UNCHANGED reply
                             ELSE /\ pc' = [pc EXCEPT ![t] = "done"]
                                  /\ reply' = [reply EXCEPT ![t].returned =
                                                  JsonDumps(ErrorResult(c, s.inv.outcome))]
    /\ UNCHANGED <<ttl, max_size, now, fs, environ>>

\* The server takes the next request once it has answered the last
NextRequest(t) ==
    /\ pc[t] = "done"
    /\ proc[t].state # "running"
    /\ pc' = [pc EXCEPT ![t] = "idle"]
    /\ call' = [call EXCEPT ![t] = NoDelegate]
    /\ inv' = [inv EXCEPT ![t] = NoInvocation]
    /\ proc' = [proc EXCEPT ![t] = NoProcess]
    /\ reply' = [reply EXCEPT ![t] = NoReply]
    /\ UNCHANGED <<cache, ttl, max_size, now, fs, last, environ>>

\* The task that handles the requests, one after the other
DelegateTasks == {"d1"}

DelegateInit ==
    /\ cache = <<>>
    /\ ttl = MaxTTL
    /\ max_size \in 1..MaxCapacity
    /\ now = 0
    /\ fs = [d \in Dirs |-> "A"]
    /\ last = NoCall
    /\ environ \in EnvironValues
    /\ pc = [t \in DelegateTasks |-> "idle"]
    /\ call = [t \in DelegateTasks |-> NoDelegate]
    /\ inv = [t \in DelegateTasks |-> NoInvocation]
    /\ proc = [t \in DelegateTasks |-> NoProcess]
    /\ reply = [t \in DelegateTasks |-> NoReply]

DoCodexDelegate ==
    \E t \in DOMAIN pc, task_description \in TaskDescriptions,
       working_directory \in DelegateDirs, execution_mode \in DelegateExecutionModes,
       sandbox_mode \in DelegateSandboxModes, output_format \in OutputFormats,
       found \in Launches \ {"no cwd"}, get_raises \in BOOLEAN :
        CodexDelegate(t, task_description, working_directory, execution_mode,
                      sandbox_mode, output_format, found, get_raises)

DoNextRequest == \E t \in DOMAIN pc : NextRequest(t)

DelegateNext ==
    \/ DoCodexDelegate
    \/ InvocationStep
    \/ DoNextRequest
    \/ Tick

DelegateSpec == DelegateInit /\ [][DelegateNext]_vars

-----------------------------------------------------------------------------
(* Properties of invoke_codex_cli (under InvokeSpec and CancelSpec) *)

\* C6: the argument vector handed to the launcher ends with the delimiter
\* "--" followed by the prompt as it was passed in, for every prompt, mode
\* and allow_write.
C6_DelimiterBeforePrompt ==
    \A t \in DOMAIN inv :
        inv[t] # NoInvocation =>
            LET command == inv[t].command
                n == Len(command)
            IN /\ n >= 2
               /\ command[n] = inv[t].prompt
               /\ command[n - 1] = "--"

\* C6 witness: a process was launched for a prompt that begins with a dash.
C6_Witness ==
    \E t \in DOMAIN inv :
        /\ inv[t].prompt = "-a do something"
        /\ proc[t].state = "running"
        /\ inv[t].command[Len(inv[t].command)] = "-a do something"
        /\ inv[t].command[Len(inv[t].command) - 1] = "--"

\* C7: with allow_write false the argument vector carries, among its flags
\* (before the delimiter), "-c" followed by "sandbox_permissions=[]", and
\* never "--full-auto", whatever sandbox and execution mode were requested.
C7_PermissionsStripped ==
    \A t \in DOMAIN inv :
        (inv[t] # NoInvocation /\ ~inv[t].allow_write) =>
            LET command == inv[t].command
                flags == 1..(Len(command) - 2)
            IN /\ \E i \in flags :
                      /\ i + 1 \in flags
                      /\ command[i] = "-c"
                      /\ command[i + 1] = "sandbox_permissions=[]"
               /\ \A i \in flags : command[i] # "--full-auto"

\* C7 witness: a process was launched without write permission for a
\* request that asked for on-failure approval and a writable workspace.
C7_Witness ==
    \E t \in DOMAIN inv :
        /\ ~inv[t].allow_write
        /\ inv[t].execution_mode = "on-failure"
        /\ inv[t].sandbox_mode = "workspace-write"
        /\ proc[t].state = "running"
        /\ inv[t].command[5] = "-c"

\* C9: a kill signal is sent only after a terminate signal and after the
\* grace period has passed, and never to a process that has exited; a
\* terminate signal is sent only after the timeout; and a call whose timeout
\* fired before its process exited ends with the TimeoutError that names the
\* timeout.
C9_TimeoutPath ==
    \A t \in DOMAIN inv :
        LET events == inv[t].events
            At(e) == {i \in 1..Len(events) : events[i] = e}
        IN /\ \A k \in At("kill") :
                  /\ \E i \in At("terminate") : i < k
                  /\ \E i \in At("grace timeout") : i < k
                  /\ \A j \in At("exit") : k < j
           /\ \A i \in At("terminate") : \E j \in At("timeout") : j < i
           /\ (/\ pc[t] = "done"
               /\ \E i \in At("timeout") : \A j \in At("exit") : i < j) =>
                  /\ inv[t].outcome.kind = "timed-out"
                  /\ inv[t].outcome.message =
                        "Codex CLI execution timed out (exceeded "
                        \o ToString(inv[t].timeout) \o " seconds)"

\* C9 holds of the calls whose process has not exited, pipes closed, by the
\* time the handler calls terminate() or kill().
C9_TimeoutPathUnlessClosed ==
    \A t \in DOMAIN inv :
        LET events == inv[t].events
            At(e) == {i \in 1..Len(events) : events[i] = e}
        IN /\ \A k \in At("kill") :
                  /\ \E i \in At("terminate") : i < k
                  /\ \E i \in At("grace timeout") : i < k
                  /\ \A j \in At("exit") : k < j
           /\ \A i \in At("terminate") : \E j \in At("timeout") : j < i
           /\ (/\ pc[t] = "done"
               /\ inv[t].outcome.exc # "ProcessLookupError"
               /\ \E i \in At("timeout") : \A j \in At("exit") : i < j) =>
                  /\ inv[t].outcome.kind = "timed-out"
                  /\ inv[t].outcome.message =
                        "Codex CLI execution timed out (exceeded "
                        \o ToString(inv[t].timeout) \o " seconds)"

\* C10: once invoke_codex_cli has returned or raised after launching a
\* process, the process has exited and its status has been collected.
C10_Reaped ==
    \A t \in DOMAIN inv :
        (pc[t] = "done" /\ proc[t].state # "none") => proc[t].state = "exited"

-----------------------------------------------------------------------------
(* Properties of codex_delegate (under DelegateSpec) *)

\* C5: when the lookup of a codex_delegate call returns a stored result, the
\* call is over without a process launched or a cache store made, the cache
\* still holds that result, and the call returns it with cache_hit true and
\* the cache note added.
C5_CacheHitShortCircuits ==
    \A t \in DOMAIN call :
        (call[t].active /\ call[t].cached_result # None) =>
            /\ pc[t] = "done"
            /\ inv[t] = NoInvocation
            /\ proc[t] = NoProcess
            /\ call[t].stored = NoParams
            /\ last.op \in {"get", "none"}
            /\ \E i \in 1..Len(cache) : cache[i].result = call[t].cached_result
            /\ reply[t].raised = None
            /\ reply[t].returned =
                  JsonDumps([JsonLoads(call[t].cached_result) EXCEPT
                                !.cache_hit = "true",
                                !.cache_note = "This result comes from the cache"])

\* C5 witness: with write disabled, a request for a writable workspace was
\* answered from the entry a read-only request had stored a second before.
C5_Witness ==
    \E t \in DOMAIN call :
        /\ pc[t] = "done"
        /\ call[t].cached_result # None
        /\ call[t].sandbox_mode = "workspace-write"
        /\ JsonLoads(call[t].cached_result).requested_sandbox_mode = "read-only"
        /\ now > 0
        /\ \E i \in 1..Len(cache) : cache[i].timestamp < now /\ cache[i].last_accessed = now

\* C8: with write disabled (CODEX_ALLOW_WRITE not "true" in any case of
\* letters) the sandbox mode passed to the cache lookup, to invoke_codex_cli
\* and to the cache store is read-only, and the result names the requested
\* mode and carries the operation_mode notice if the request was overridden;
\* with write enabled all three get the requested mode.
C8_EffectiveSandboxMode ==
    \A t \in DOMAIN call :
        (call[t].active /\ call[t].looked_up # NoParams) =>
            LET write_enabled == environ \in {"true", "True", "TRUE"}
                mode == IF write_enabled THEN call[t].sandbox_mode ELSE "read-only"
                overridden == ~write_enabled /\ call[t].sandbox_mode # "read-only"
            IN /\ call[t].looked_up.sandbox_mode = mode
               /\ inv[t] # NoInvocation =>
                      /\ inv[t].sandbox_mode = mode
                      /\ inv[t].allow_write = write_enabled
               /\ call[t].stored # NoParams =>
                      /\ call[t].stored.sandbox_mode = mode
                      /\ LET d == JsonLoads(reply[t].returned)
                         IN /\ d.sandbox_mode = mode
                            /\ d.requested_sandbox_mode = call[t].sandbox_mode
                            /\ d.operation_mode = IF overridden THEN "planning" ELSE Absent

\* C8 witness: with CODEX_ALLOW_WRITE set to "1", a request for a writable
\* workspace has run to success and its result was stored under read-only.
C8_Witness ==
    \E t \in DOMAIN call :
        /\ environ = "1"
        /\ pc[t] = "done"
        /\ call[t].sandbox_mode = "workspace-write"
        /\ call[t].looked_up.sandbox_mode = "read-only"
        /\ inv[t].sandbox_mode = "read-only"
        /\ call[t].stored.sandbox_mode = "read-only"
        /\ last.op = "set"
        /\ last.key.sandbox_mode = "read-only"

-----------------------------------------------------------------------------
(* Outcomes of invoke_codex_cli (under InvokeSpec) *)

\* C11: a finished call has one of the outcomes success, failed, timed-out,
\* tool-not-found; a call whose timeout fired has neither success nor
\* failed; a call that ended in success or failed sent no terminate and no
\* kill.
C11_ExactlyOneOutcome ==
    \A t \in DOMAIN inv :
        LET events == inv[t].events
            At(e) == {i \in 1..Len(events) : events[i] = e}
            kind == inv[t].outcome.kind
        IN /\ pc[t] = "done" =>
                  kind \in {"success", "failed", "timed-out", "tool-not-found"}
           /\ (pc[t] = "done" /\ At("timeout") # {}) => kind \notin {"success", "failed"}
           /\ kind \in {"success", "failed"} => At("terminate") \cup At("kill") = {}

\* C11 holds but for the exceptions no handler turns into one of the four
\* outcomes: the completion path and the timeout path exclude each other.
C11_PathsExclusive ==
    \A t \in DOMAIN inv :
        LET events == inv[t].events
            At(e) == {i \in 1..Len(events) : events[i] = e}
            kind == inv[t].outcome.kind
        IN /\ pc[t] = "done" =>
                  \/ kind \in {"success", "failed", "timed-out", "tool-not-found"}
                  \/ inv[t].outcome.exc \in {"ProcessLookupError", "UnicodeDecodeError"}
           /\ (pc[t] = "done" /\ At("timeout") # {}) => kind \notin {"success", "failed"}
           /\ kind \in {"success", "failed"} => At("terminate") \cup At("kill") = {}

-----------------------------------------------------------------------------
(* Termination of invoke_codex_cli (under InvokeFairSpec) *)

\* A process that has been force-killed exits
KilledProcessExits ==
    \E t \in InvokeTasks, returncode \in Returncodes, stdout \in Stdouts, stderr \in Stderrs :
        /\ \E i \in 1..Len(inv[t].events) : inv[t].events[i] = "kill"
        /\ ProcessExits(t, returncode, stdout, stderr)

\* What the event loop guarantees to a call in flight: a ready coroutine is
\* resumed, the timers of both wait_for calls fire, the pipes of an exited
\* process reach end of file; and a killed process exits. Nothing makes a
\* process exit before it is killed, and nothing makes a caller call.
InvokeFairness ==
    /\ WF_vars(DoTransportCloses)
    /\ WF_vars(DoCommunicateReturns)
    /\ WF_vars(DoTimeoutFires)
    /\ WF_vars(DoTerminate)
    /\ WF_vars(DoGraceExpires)
    /\ WF_vars(DoKill)
    /\ WF_vars(DoWaitReturns)
    /\ WF_vars(KilledProcessExits)

\* Calls awaited to their end on a running event loop
InvokeFairSpec == InvokeInit /\ [][InvokeNext]_vars /\ InvokeFairness

\* terminate() signalled the running process of call t: had the process
\* exited on its own before, no signal would have been sent
Signalled(t) == \E i \in 1..Len(inv[t].events) : inv[t].events[i] = "terminate"

\* kill() signalled the running process of call t
Killed(t) == \E i \in 1..Len(inv[t].events) : inv[t].events[i] = "kill"

\* C12: every launched call eventually finishes with its process exited,
\* and when the process did not exit before it was signalled (it never
\* exits on its own) the call ends with the timed-out outcome.
C12_EventuallyTimedOut ==
    \A t \in InvokeTasks :
        (pc[t] = "communicate") ~>
            (/\ pc[t] = "done"
             /\ proc[t].state = "exited"
             /\ Signalled(t) => inv[t].outcome.kind = "timed-out")

\* C12, as the code has it: every launched call eventually finishes with
\* its process exited; a call whose process had to be killed ends timed-out;
\* a call whose process exits from terminate() ends timed-out unless kill()
\* found the transport closed.
C12_EventuallyFinishes ==
    \A t \in InvokeTasks :
        (pc[t] = "communicate") ~>
            (/\ pc[t] = "done"
             /\ proc[t].state = "exited"
             /\ Killed(t) => inv[t].outcome.kind = "timed-out"
             /\ Signalled(t) => \/ inv[t].outcome.kind = "timed-out"
                                \/ inv[t].outcome = ProcessLookupError)

-----------------------------------------------------------------------------
(* Completion before the timeout (under InvokeSpec) *)

\* Call t ended on the completion path: communicate() returned
CompletedInTime(t) ==
    /\ pc[t] = "done"
    /\ proc[t].state = "exited"
    /\ \A i \in 1..Len(inv[t].events) : inv[t].events[i] # "timeout"

\* C13: a call whose process completes before the timeout yields success
\* with both streams when the exit code is 0, and for every other exit code
\* failed with the message taken from stderr, "Unknown error" when stderr
\* holds no message.
C13_CompletionOutcome ==
    \A t \in DOMAIN inv :
        CompletedInTime(t) =>
            LET p == proc[t]
                outcome == inv[t].outcome
            IN IF p.returncode = 0
               THEN /\ outcome.kind = "success"
                    /\ outcome.stdout = p.stdout
                    /\ outcome.stderr = p.stderr
               ELSE /\ outcome.kind = "failed"
                    /\ outcome.message =
                          "Codex CLI execution failed (exit code: "
                          \o ToString(p.returncode) \o "): "
                          \o (IF Strip(p.stderr) # "" THEN Strip(p.stderr)
                              ELSE "Unknown error")

\* C13, as the code has it: for output that is valid UTF-8 the exit code
\* decides between success and failed; the message of failed is stderr
\* stripped, which is empty for a stderr of white space alone, and
\* "Unknown error" for an empty stderr only. Output that is no valid UTF-8
\* ends the call with UnicodeDecodeError when it is decoded.
C13_CompletionOutcomeDecodable ==
    \A t \in DOMAIN inv :
        CompletedInTime(t) =>
            LET p == proc[t]
                outcome == inv[t].outcome
                prefix == "Codex CLI execution failed (exit code: "
                          \o ToString(p.returncode) \o "): "
            IN CASE p.returncode = 0 /\ InvalidUtf8 \notin {p.stdout, p.stderr} ->
                      /\ outcome.kind = "success"
                      /\ outcome.stdout = p.stdout
                      /\ outcome.stderr = p.stderr
                 [] p.returncode # 0 /\ p.stderr = "" ->
                      /\ outcome.kind = "failed"
                      /\ outcome.message = prefix \o "Unknown error"
                 [] p.returncode # 0 /\ p.stderr = "warn\n" ->
                      /\ outcome.kind = "failed"
                      /\ outcome.message = prefix \o "warn"
                 [] p.returncode # 0 /\ p.stderr = " \n" ->
                      /\ outcome.kind = "failed"
                      /\ outcome.message = prefix
                 [] OTHER -> outcome.exc = "UnicodeDecodeError"

-----------------------------------------------------------------------------
(* The tool not found at launch (under InvokeSpec) *)

\* C14: a call whose launch finds no codex binary ends with the
\* tool-not-found outcome and its installation guidance; the failed launch
\* is the only event of the call (no second launch, no terminate, no kill)
\* and no process exists.
C14_ToolNotFound ==
    \A t \in DOMAIN inv :
        (inv[t].events # <<>> /\ inv[t].events[1] = "no codex") =>
            /\ pc[t] = "done"
            /\ inv[t].outcome.kind = "tool-not-found"
            /\ inv[t].outcome.exc = "RuntimeError"
            /\ inv[t].outcome.message =
                  "codex command not found. Please ensure OpenAI Codex CLI is "
                  \o "installed: npm install -g @openai/codex"
            /\ inv[t].events = <<"no codex">>
            /\ proc[t] = NoProcess

C14_Witness ==
    \E t \in DOMAIN inv : pc[t] = "done" /\ inv[t].events = <<"no codex">>

-----------------------------------------------------------------------------
(* What codex_delegate writes to the cache (under DelegateSpec) *)

\* A step creates an entry or overwrites one: a key appears, or a stored
\* key gets another result or another creation time (a read changes
\* last_accessed alone)
WritesEntry ==
    \E k \in Keys(cache') :
        \/ k \notin Keys(cache)
        \/ /\ k \in Keys(cache)
           /\ \/ Entry(cache', k).result # Entry(cache, k).result
              \/ Entry(cache', k).timestamp # Entry(cache, k).timestamp

\* C15: an entry is created or overwritten, and a call records a store,
\* only by the step in which invoke_codex_cli returns successfully to a
\* codex_delegate call whose lookup had missed; steps ending a call in
\* failed, timed-out, tool-not-found or invalid-directory write no entry.
C15_StoreOnlyAfterSuccess ==
    [][(\/ WritesEntry
        \/ \E t \in DOMAIN call :
              call[t].stored = NoParams /\ call'[t].stored # NoParams)
       => \E t \in DOMAIN call :
              /\ pc[t] = "communicate" /\ pc'[t] = "done"
              /\ inv'[t].outcome.kind = "success"
              /\ call[t].looked_up # NoParams
              /\ call[t].cached_result = None
              /\ call'[t].stored = call[t].looked_up]_vars

\* C15 witness: a call has ended in failed while the cache held an entry,
\* and stored nothing.
C15_Witness ==
    \E t \in DOMAIN call :
        /\ pc[t] = "done"
        /\ inv[t].outcome.kind = "failed"
        /\ call[t].stored = NoParams
        /\ cache # <<>>

-----------------------------------------------------------------------------
(* A store that fails (under DelegateSpec) *)

\* C16: when result_cache.set raises after a successful invocation,
\* codex_delegate returns the result it would have returned (status
\* success, the content of stdout), raises nothing, and the cache is as it
\* was: the result is not stored, nothing else changes.
C16_StoreFailureStillReturns ==
    [][\A t \in DOMAIN call :
          (pc[t] = "communicate" /\ call'[t].cache_error # None) =>
              LET result == SuccessResult(call[t], inv'[t].outcome) IN
              /\ pc'[t] = "done"
              /\ inv'[t].outcome.kind = "success"
              /\ reply'[t].raised = None
              /\ reply'[t].returned = JsonDumps(result)
              /\ result.status = "success"
              /\ result.content = Strip(proc[t].stdout)
              /\ call'[t].stored = NoParams
              /\ cache' = cache]_vars

\* C16 witness: a call has ended after a successful invocation whose
\* store raised.
C16_Witness ==
    \E t \in DOMAIN call :
        /\ pc[t] = "done"
        /\ inv[t].outcome.kind = "success"
        /\ call[t].cache_error # None
        /\ reply[t].returned # None

-----------------------------------------------------------------------------
(* What codex_delegate gives back (under DelegateSpec) *)

\* The dicts the call of task t can have returned, by its return statements
ReturnedDicts(t) ==
    {InvalidDirectoryResult(call[t].working_directory),
     SuccessResult(call[t], inv[t].outcome),
     ErrorResult(call[t], inv[t].outcome)}
    \cup (IF CacheHit(call[t].cached_result)
          THEN {CacheHitResult(JsonLoads(call[t].cached_result))}
          ELSE {})

\* The reply of task t is structured: JSON with a status and, for an error,
\* a message and an error type
Structured(t) ==
    \E d \in ReturnedDicts(t) :
        /\ reply[t].returned = JsonDumps(d)
        /\ d.status \in {"success", "error"}
        /\ d.status = "error" =>
              /\ d.message \notin {Absent, None}
              /\ d.error_type \notin {Absent, None}

\* C17: every finished codex_delegate call raised nothing and returned a
\* structured result, whatever its outcome, a cache error on lookup or on
\* store included.
C17_NeverRaises ==
    \A t \in DOMAIN call :
        (pc[t] = "done" /\ call[t].active) =>
            /\ reply[t].raised = None
            /\ Structured(t)

\* C17, as the code has it: a finished call returned a structured result
\* unless result_cache.get raised, and that exception escaped the call
\* before anything was launched.
C17_RaisesOnlyLookupError ==
    \A t \in DOMAIN call :
        (pc[t] = "done" /\ call[t].active) =>
            IF reply[t].raised = None
            THEN Structured(t)
            ELSE /\ reply[t].raised = CacheError
                 /\ reply[t].returned = None
                 /\ call[t].cache_error = CacheError
                 /\ inv[t] = NoInvocation
                 /\ proc[t] = NoProcess

-----------------------------------------------------------------------------
(* A working directory that fails validation (under DelegateSpec) *)

\* The directories of the model that validation rejects: a system
\* directory and a relative path
RejectedDirs == {"/etc", "w"}

\* C18: the step of codex_delegate for a working directory that fails
\* validation returns the invalid_directory error and leaves the cache as
\* it was; the call made no lookup and no store and launched no process.
C18_InvalidDirectory ==
    [][\A t \in DOMAIN call :
          (/\ pc[t] = "idle"
           /\ call'[t].active
           /\ call'[t].working_directory \in RejectedDirs) =>
              /\ pc'[t] = "done"
              /\ reply'[t].raised = None
              /\ reply'[t].returned =
                    JsonDumps([NoDict EXCEPT
                        !.status = "error",
                        !.message = "Invalid or unsafe working directory: "
                                    \o call'[t].working_directory,
                        !.error_type = "invalid_directory"])
              /\ cache' = cache
              /\ last' = last
              /\ call'[t].looked_up = NoParams
              /\ call'[t].stored = NoParams
              /\ call'[t].cache_error = None
              /\ inv'[t] = NoInvocation
              /\ proc'[t] = NoProcess]_vars

\* C18 witness: a call for /etc has been answered while the cache held an
\* entry.
C18_Witness ==
    \E t \in DOMAIN call :
        /\ pc[t] = "done"
        /\ call[t].working_directory = "/etc"
        /\ reply[t].returned # None
        /\ cache # <<>>

-----------------------------------------------------------------------------
(* Concurrent codex_delegate tasks on the one result_cache (ConcurrentSpec) *)

\* Two requests handled at once by the event loop. Their steps interleave at
\* the awaits of invoke_codex_cli only: ResultCache.get, .set and
\* ._evict_oldest are plain functions without an await, so each runs from
\* its first to its last statement inside one step of its task.
ConcurrentTasks == {"d1", "d2"}

\* The server started with any capacity MAX_CACHE_SIZE can give
ConcurrentInit ==
    /\ cache = <<>>
    /\ ttl = MaxTTL
    /\ max_size \in 0..MaxCapacity
    /\ now = 0
    /\ fs = [d \in Dirs |-> "A"]
    /\ last = NoCall
    /\ environ = None
    /\ pc = [t \in ConcurrentTasks |-> "idle"]
    /\ call = [t \in ConcurrentTasks |-> NoDelegate]
    /\ inv = [t \in ConcurrentTasks |-> NoInvocation]
    /\ proc = [t \in ConcurrentTasks |-> NoProcess]
    /\ reply = [t \in ConcurrentTasks |-> NoReply]

\* A read-only request for a valid directory, with codex installed
DoConcurrentDelegate ==
    \E t \in DOMAIN pc, task_description \in ConcurrentTaskDescriptions,
       working_directory \in Dirs, execution_mode \in DelegateExecutionModes,
       output_format \in OutputFormats :
        CodexDelegate(t, task_description, working_directory, execution_mode,
                      "read-only", output_format, "ok", FALSE)

\* The process of a request succeeds well before the timeout: it exits with
\* code 0 and its pipes close
ProcessSucceeds(t, stdout) ==
    /\ proc[t].state = "running"
    /\ proc' = [proc EXCEPT ![t] = [state |-> "exited", cwd |-> proc[t].cwd,
                                    closed |-> TRUE, returncode |-> 0,
                                    stdout |-> stdout, stderr |-> ""]]
    /\ inv' = [inv EXCEPT ![t].events = Append(@, "exit")]
    /\ UNCHANGED <<cache, ttl, max_size, now, fs, last, environ, pc, call, reply>>

DoProcessSucceeds == \E t \in DOMAIN pc, stdout \in Stdouts : ProcessSucceeds(t, stdout)

ConcurrentNext ==
    \/ DoConcurrentDelegate
    \/ DoProcessSucceeds
    \/ DoCommunicateReturns
    \/ DoNextRequest
    \/ Tick

ConcurrentSpec == ConcurrentInit /\ [][ConcurrentNext]_vars

\* Every eviction of a set removed an entry of least last_accessed among
\* the entries stored when the set began
EvictedLeastRecentlyAccessed ==
    (last.op = "set" /\ last.removed # NoEntry) =>
        /\ \A i \in 1..Len(cache) :
               cache[i].key # last.key =>
                   last.removed.last_accessed <= cache[i].last_accessed
        /\ last.replaced # NoEntry =>
               last.removed.last_accessed <= last.replaced.last_accessed

\* C19: in every interleaving of the concurrent tasks the cache holds at
\* most max_size entries and every eviction took a least recently accessed
\* entry.
C19_ConcurrentCapacityAndEviction ==
    /\ Len(cache) <= max_size
    /\ EvictedLeastRecentlyAccessed

\* C19, as the code has it: the same for every capacity of at least 1; with
\* capacity 0 a set stores its entry all the same.
C19_ConcurrentPositiveCapacity ==
    /\ max_size >= 1 => Len(cache) <= max_size
    /\ max_size = 0 => Len(cache) <= 1
    /\ EvictedLeastRecentlyAccessed

\* Both tasks were in flight when one of them stored its result and evicted
\* the entry of an earlier request
C19_InFlightEviction ==
    /\ last.op = "set"
    /\ last.removed # NoEntry
    /\ \E t \in DOMAIN pc : pc[t] = "communicate"
    /\ \E t \in DOMAIN pc : pc[t] = "done" /\ call[t].stored # NoParams

-----------------------------------------------------------------------------
(* _calculate_directory_hash on directory trees (HashSpec) *)

\* No digest computed yet
NoDigests == [op |-> "hash", digest |-> [d \in HashDirs |-> None]]

HashInit ==
    /\ cache = <<>>
    /\ ttl = MaxTTL
    /\ max_size = MaxCapacity
    /\ now = 0
    /\ fs \in [HashDirs -> HashTrees]
    /\ last = NoDigests
    /\ environ = None
    /\ pc = <<>>
    /\ call = <<>>
    /\ inv = <<>>
    /\ proc = <<>>
    /\ reply = <<>>

\* A call of _calculate_directory_hash on directory d
HashDirectory(d) ==
    /\ last.digest[d] = None
    /\ last' = [last EXCEPT !.digest[d] = DirectoryHash(fs[d])]
    /\ UNCHANGED <<cache, ttl, max_size, now, fs, environ, pc, call, inv, proc, reply>>

DoHashDirectory == \E d \in HashDirs : HashDirectory(d)

\* A second passes
Clock ==
    /\ now < MaxTime
    /\ now' = now + 1
    /\ UNCHANGED <<cache, ttl, max_size, fs, last, environ, pc, call, inv, proc, reply>>

HashNext ==
    \/ DoHashDirectory
    \/ Clock

HashSpec == HashInit /\ [][HashNext]_vars

\* C20: two calls of _calculate_directory_hash on trees with the same
\* relative paths and contents return the same digest, whatever the order
\* in which the entries of each directory are listed.
C20_Deterministic ==
    \A d, e \in HashDirs :
        (/\ last.digest[d] # None
         /\ last.digest[e] # None
         /\ SameTree(fs[d], fs[e])) =>
            last.digest[d] = last.digest[e]

\* C20, as the code has it: the digests agree when, besides, the file names
\* are valid UTF-8 and the subdirectories are listed in the same order;
\* the order in which the files of a directory are listed plays no part.
C20_DeterministicPerDirectoryOrder ==
    \A d, e \in HashDirs :
        (/\ last.digest[d] # None
         /\ last.digest[e] # None
         /\ SameTree(fs[d], fs[e])
         /\ fs[d].encodable
         /\ fs[d].dirs = fs[e].dirs) =>
            last.digest[d] = last.digest[e]

\* The two top directories list their two files in opposite orders and the
\* digests agree
C20_FilesRelisted ==
    /\ last.digest["/w"] # None
    /\ last.digest["/w"] = last.digest["/v"]
    /\ fs["/w"].encodable /\ fs["/v"].encodable
    /\ fs["/w"].files = <<"a.py", "b.py">>
    /\ fs["/v"].files = <<"b.py", "a.py">>

-----------------------------------------------------------------------------
(* The cache over a directory that changes (FingerprintSpec) *)

\* One tracked file of tree a was changed, added or removed to give tree b
OneChange(a, b) ==
    /\ a.encodable = b.encodable
    /\ \E path \in Paths :
          /\ FileAt(a, path) # FileAt(b, path)
          /\ \A other \in Paths \ {path} : FileAt(a, other) = FileAt(b, other)

\* A directory without entries
EmptyTree ==
    [files |-> <<>>, dirs |-> <<>>, sub |-> [n \in SubdirNames |-> <<>>],
     content |-> [path \in Paths |-> FileContent], encodable |-> TRUE,
     unreadable |-> {}]

\* The trees of the directory that changes: the two files whose content
\* varies, one at the top and one in a subdirectory (the orders of listing
\* are those of HashSpec)
FingerprintTrees ==
    {t \in HashTrees : /\ \A path \in Paths \ EditedPaths : FileAt(t, path) = None
                       /\ \A n \in Range(t.dirs) : t.sub[n] # <<>>}

\* The parameters of the requests for the directory that changes
FingerprintParams == Params("t1", "read-only")

FingerprintInit ==
    /\ cache = <<>>
    /\ ttl = MaxTTL
    /\ max_size = 1
    /\ now = 0
    /\ fs \in {f \in [HashDirs -> FingerprintTrees] : f["/v"] = EmptyTree}
    /\ last = NoCall
    /\ environ = None
    /\ pc = <<>>
    /\ call = <<>>
    /\ inv = <<>>
    /\ proc = <<>>
    /\ reply = <<>>

\* Someone edits, creates or deletes one tracked file of the directory
\* after a set, before the next call of the cache
ChangeTree ==
    /\ last.op = "set"
    /\ \E t \in FingerprintTrees :
          /\ OneChange(fs["/w"], t)
          /\ fs' = [fs EXCEPT !["/w"] = t]
    /\ UNCHANGED <<cache, ttl, max_size, now, last, environ, pc, call, inv, proc, reply>>

FingerprintGet == Get(FingerprintParams)

FingerprintSet == Set(FingerprintParams, "R1")

FingerprintNext ==
    \/ FingerprintSet
    \/ FingerprintGet
    \/ ChangeTree
    \/ Clock

FingerprintSpec == FingerprintInit /\ [][FingerprintNext]_vars

\* C21: when one tracked file was changed, added or removed between a set
\* and the next get for the same parameters, the get computes another
\* digest than the set did, and returns nothing when the set stored into
\* an empty cache.
C21_ChangeMisses ==
    [][(/\ last.op = "set"
        /\ last'.op = "get"
        /\ OneChange(last.dir, last'.dir))
       => /\ last'.key.files_hash # last.key.files_hash
          /\ last.size = 0 => last'.ret = None]_vars

\* C21, as the code has it: the same for a directory whose file names are
\* all valid UTF-8; on any other the digest is the second of the call.
C21_ChangeMissesWhenEncodable ==
    [][(/\ last.op = "set"
        /\ last'.op = "get"
        /\ OneChange(last.dir, last'.dir)
        /\ last.dir.encodable)
       => /\ last'.key.files_hash # last.key.files_hash
          /\ last.size = 0 => last'.ret = None]_vars

-----------------------------------------------------------------------------
(* The cache over a directory that cannot be listed (TraversalSpec) *)

\* A working directory that is gone (or that the process may not list):
\* os.walk yields nothing for it and raises nothing
VanishedDir == "/gone"

VanishedParams == [Params("t1", "read-only") EXCEPT !.directory = VanishedDir]

VanishedSet == \E result \in Results : Set(VanishedParams, result)

VanishedGet == Get(VanishedParams)

TraversalNext ==
    \/ Next
    \/ VanishedSet
    \/ VanishedGet

TraversalSpec == Init /\ [][TraversalNext]_vars

\* C22: a get for a working directory whose traversal failed (nothing could
\* be listed, or the walk raised) returns nothing.
C22_FailedTraversalMisses ==
    (last.op = "get" /\ last.dir \in {"", Unwalkable}) => last.ret = None

\* C22, as the code has it: on the fallback digest a get hits only in the
\* second in which the entry was stored.
C22_FallbackHitsWithinTheSecond ==
    (last.op = "get" /\ last.dir = Unwalkable /\ last.ret # None)
        => \E i \in DOMAIN cache : /\ cache[i].key = last.key
                                   /\ cache[i].timestamp = now

-----------------------------------------------------------------------------
(* _generate_cache_key on its six arguments (KeySpec) *)

\* The arguments of a call: two values of each, and as files_hash the
\* default None, the empty string, the text "none" and two digests
KeyInputs ==
    [task : {"t1", "t2"}, directory : HashDirs,
     exec_mode : {"on-failure", "never"},
     sandbox_mode : {"read-only", "workspace-write"},
     output_format : {"diff", "explanation"},
     files_hash : {None, "", "none", "sha256:A", "sha256:B"}]

KeyFields == {"task", "directory", "exec_mode", "sandbox_mode", "output_format", "files_hash"}

\* Two argument tuples that differ in at most one argument
KeyInit ==
    /\ cache = <<>>
    /\ ttl = MaxTTL
    /\ max_size = MaxCapacity
    /\ now = 0
    /\ fs = [d \in Dirs |-> "A"]
    /\ \E a, b \in KeyInputs :
          /\ Cardinality({f \in KeyFields : a[f] # b[f]}) <= 1
          /\ last = [op |-> "arguments", a |-> a, b |-> b, key_a |-> NoKey, key_b |-> NoKey]
    /\ environ = None
    /\ pc = <<>>
    /\ call = <<>>
    /\ inv = <<>>
    /\ proc = <<>>
    /\ reply = <<>>

\* _generate_cache_key called on each of the two tuples
GenerateKeys ==
    /\ last.op = "arguments"
    /\ last' = [last EXCEPT
                   !.op = "keys",
                   !.key_a = GenerateCacheKey(last.a.task, last.a.directory, last.a.exec_mode,
                                              last.a.sandbox_mode, last.a.output_format,
                                              last.a.files_hash),
                   !.key_b = GenerateCacheKey(last.b.task, last.b.directory, last.b.exec_mode,
                                              last.b.sandbox_mode, last.b.output_format,
                                              last.b.files_hash)]
    /\ UNCHANGED <<cache, ttl, max_size, now, fs, environ, pc, call, inv, proc, reply>>

KeyNext == GenerateKeys

KeySpec == KeyInit /\ [][KeyNext]_vars

IsDigest(files_hash) == files_hash \notin {None, "", "none"}

\* C23, as the code has it: the same for fingerprints that are digests; no
\* fingerprint, the empty one and the text "none" give one key.
C23_KeyOfSixInputsOnDigests ==
    (last.op = "keys" /\ IsDigest(last.a.files_hash) /\ IsDigest(last.b.files_hash))
        => (last.key_a = last.key_b <=> last.a = last.b)

-----------------------------------------------------------------------------
(* ResultCache.set on a key that is stored *)

\* C24: a set whose key is already stored removes no other entry: the
\* cache holds the keys it held before the call.
C24_OverwriteKeepsKeys ==
    (last.op = "set" /\ last.replaced # NoEntry)
        => /\ last.removed = NoEntry \/ last.removed.key = last.key
           /\ Len(cache) = last.size

\* C24, as the code has it: set evicts whenever the cache is at capacity
\* and holds an entry, whether or not its key is stored.
C24_EvictsWheneverFull ==
    last.op = "set"
        => (last.removed # NoEntry <=> (last.size >= max_size /\ last.size > 0))

-----------------------------------------------------------------------------
(* ResultCache.cleanup_expired *)

\* C25: cleanup_expired removes exactly the entries with
\* now - timestamp > ttl, leaves the others as they were and in their
\* order, and returns the number it removed; afterwards no stored entry is
\* expired.
C25_CleanupRemovesExactlyExpired ==
    [][last'.op = "cleanup_expired"
       => /\ cache' = SelectSeq(cache, LAMBDA e : ~(now - e.timestamp > ttl))
          /\ last'.count = Cardinality({i \in DOMAIN cache : now - cache[i].timestamp > ttl})
          /\ last'.count = Len(cache) - Len(cache')
          /\ \A i \in DOMAIN cache' : now' - cache'[i].timestamp <= ttl']_vars

\* A cleanup that removed an entry and kept another, one of them stored for
\* exactly ttl seconds
C25_Witness ==
    /\ last.op = "cleanup_expired"
    /\ last.count = 1
    /\ last.size = 2
    /\ \E i \in DOMAIN cache : now - cache[i].timestamp = ttl

-----------------------------------------------------------------------------
(* ResultCache.get_stats (StatsSpec) *)

\* get_stats as it would be with >= for > in its test of expiry
GetStatsExpiredAtTTL(c) ==
    LET expired_count == Len(SelectSeq(c, LAMBDA e : now - e.timestamp >= ttl)) IN
    [total_entries |-> Len(c),
     expired_entries |-> expired_count,
     active_entries |-> Len(c) - expired_count,
     max_size |-> max_size,
     ttl_seconds |-> ttl,
     oldest_entry_age |-> IF c # <<>>
                          THEN now - (CHOOSE t \in {c[i].timestamp : i \in DOMAIN c} :
                                          \A i \in DOMAIN c : t <= c[i].timestamp)
                          ELSE 0]

\* The dictionary get_stats returns on the dict c
GetStats(c) ==
    LET expired_count == Len(SelectSeq(c, LAMBDA e : now - e.timestamp > ttl)) IN
    [total_entries |-> Len(c),
     expired_entries |-> expired_count,
     active_entries |-> Len(c) - expired_count,
     max_size |-> max_size,
     ttl_seconds |-> ttl,
     oldest_entry_age |-> IF c # <<>>
                          THEN now - (CHOOSE t \in {c[i].timestamp : i \in DOMAIN c} :
                                          \A i \in DOMAIN c : t <= c[i].timestamp)
                          ELSE 0]

\* A call of ResultCache.get_stats
Stats ==
    /\ last' = Called("get_stats", NoKey, None, GetStats(cache), 0, NoEntry, NoEntry)
    /\ UNCHANGED <<cache, ttl, max_size, now, fs, taskVars>>

StatsNext ==
    \/ Next
    \/ Stats

StatsSpec == Init /\ [][StatsNext]_vars

\* C26: get_stats reports the number of stored entries, the number of
\* those with now - timestamp > ttl, their difference, max_size, ttl and
\* the age of the entry of least timestamp (0 for an empty cache), and
\* leaves the cache as it was.
C26_StatsAccurate ==
    [][last'.op = "get_stats"
       => /\ cache' = cache
          /\ last'.ret.total_entries = Len(cache)
          /\ last'.ret.expired_entries
                 = Cardinality({i \in DOMAIN cache : now - cache[i].timestamp > ttl})
          /\ last'.ret.active_entries
                 = Cardinality({i \in DOMAIN cache : now - cache[i].timestamp <= ttl})
          /\ last'.ret.active_entries = last'.ret.total_entries - last'.ret.expired_entries
          /\ last'.ret.max_size = max_size
          /\ last'.ret.ttl_seconds = ttl
          /\ IF cache = <<>>
             THEN last'.ret.oldest_entry_age = 0
             ELSE \E i \in DOMAIN cache :
                      /\ last'.ret.oldest_entry_age = now - cache[i].timestamp
                      /\ \A j \in DOMAIN cache : cache[i].timestamp <= cache[j].timestamp]_vars

\* Statistics of a cache that holds an expired entry, not yet removed, and
\* one stored for exactly ttl seconds
C26_Witness ==
    /\ last.op = "get_stats"
    /\ last.ret.total_entries = 2
    /\ last.ret.expired_entries = 1
    /\ last.ret.oldest_entry_age = 2
    /\ \E i \in DOMAIN cache : now - cache[i].timestamp = ttl

-----------------------------------------------------------------------------
(* ResultCache.clear, and the configuration of the cache *)

\* C27: clear leaves the cache empty whatever it held; an empty cache stays
\* empty, and every get on it returns nothing, until a set; no operation
\* changes ttl or max_size.
C27_ClearAndConfiguration ==
    [][/\ last'.op = "clear" => cache' = <<>>
       /\ (cache = <<>> /\ last'.op # "set")
             => /\ cache' = <<>>
                /\ last'.op = "get" => last'.ret = None
       /\ ttl' = ttl
       /\ max_size' = max_size]_vars

\* A clear of a cache that held two entries, none of them expired
C27_Witness ==
    /\ last.op = "clear"
    /\ last.size = 2
    /\ cache = <<>>
    /\ now = 0

-----------------------------------------------------------------------------
(* The launches of one codex_delegate call (under DelegateSpec) *)

\* The events that are a call of create_subprocess_exec, successful or not
LaunchEvents == {"spawn"} \cup (Launches \ {"ok"})

\* The number of launches among the events of the call of task t
LaunchCount(t) == Len(SelectSeq(inv[t].events, LAMBDA e : e \in LaunchEvents))

\* C28: a codex_delegate call launches the tool at most once; a call that
\* ended with a failed, timed-out or tool-not-found outcome launched it
\* exactly once.
C28_LaunchedAtMostOnce ==
    \A t \in DOMAIN inv :
        /\ LaunchCount(t) <= 1
        /\ (call[t].active /\ inv[t].outcome.kind \in {"failed", "timed-out", "tool-not-found"})
              => /\ LaunchCount(t) = 1
                 /\ pc[t] = "done"
                 /\ reply[t] # NoReply

\* A call that timed out after its one launch
C28_Witness ==
    \E t \in DOMAIN inv :
        /\ call[t].active
        /\ pc[t] = "done"
        /\ inv[t].outcome.kind = "timed-out"
        /\ LaunchCount(t) = 1

-----------------------------------------------------------------------------
(* validate_working_directory on paths (ValidateSpec) *)

\* The paths validated: a directory, a relative path, a path that does not
\* exist, a file, a denylisted directory under three names, a directory
\* under it, and a directory whose name begins with the letters of a
\* denylisted one
ValidatePaths ==
    {"/w", "w", "/gone", "/w/f", "/etc", "//etc", "/w/../etc", "/etc/ssl", "/etcetera"}

\* The directory a path names
Resolved(path) == IF path \in {"//etc", "/w/../etc"} THEN "/etc" ELSE path

\* No path validated yet
NoneValidated == [op |-> "validate", checked |-> {}, accepted |-> {}]

ValidateInit ==
    /\ cache = <<>>
    /\ ttl = MaxTTL
    /\ max_size = MaxCapacity
    /\ now = 0
    /\ fs = [d \in Dirs |-> "A"]
    /\ last = NoneValidated
    /\ environ = None
    /\ pc = <<>>
    /\ call = <<>>
    /\ inv = <<>>
    /\ proc = <<>>
    /\ reply = <<>>

\* A call of validate_working_directory
Validate(directory) ==
    /\ directory \notin last.checked
    /\ last' = [last EXCEPT
                   !.checked = @ \cup {directory},
                   !.accepted = IF ValidateWorkingDirectory(directory)
                                THEN @ \cup {directory} ELSE @]
    /\ UNCHANGED <<cache, ttl, max_size, now, fs, environ, pc, call, inv, proc, reply>>

ValidateNext == \E directory \in ValidatePaths : Validate(directory)

ValidateSpec == ValidateInit /\ [][ValidateNext]_vars

\* The directory a path names is a denylisted one or lies under one
UnderDangerousPath(path) ==
    \E dangerous \in DangerousPaths :
        \/ Resolved(path) = dangerous
        \/ StartsWith(Chars(Resolved(path)), Chars(dangerous) \o <<"/">>)

\* What the contract asks of a working directory
SafeDirectory(path) ==
    /\ Chars(path)[1] = "/"
    /\ path \in ExistingDirs
    /\ ~UnderDangerousPath(path)

\* C29: validate_working_directory returns true exactly for the absolute
\* paths of existing directories that are no denylisted directory and lie
\* under none.
C29_ValidExactlyWhenSafe ==
    \A directory \in last.checked :
        directory \in last.accepted <=> SafeDirectory(directory)

\* C29, as the code has it: a path normpath brings to the name of its
\* directory is accepted only when it is safe.
C29_AcceptedOnlyWhenSafe ==
    \A directory \in last.accepted :
        Normpath(directory) = Resolved(directory) => SafeDirectory(directory)

-----------------------------------------------------------------------------
(* The error response for an invalid directory (under DelegateSpec) *)

\* A call for a rejected directory, with workspace-write requested while
\* writes are disabled, has returned
RejectedWriteRequest(t) ==
    /\ pc[t] = "done"
    /\ call[t].active
    /\ call[t].working_directory \in RejectedDirs
    /\ call[t].sandbox_mode = "workspace-write"
    /\ ~AllowWrite(environ)

\* C30: the response to such a call has status error and carries
\* sandbox_mode read-only and requested_sandbox_mode workspace-write.
C30_InvalidDirectoryCarriesModes ==
    \A t \in DOMAIN call :
        RejectedWriteRequest(t) =>
            \E d \in ReturnedDicts(t) :
                /\ reply[t].returned = JsonDumps(d)
                /\ d.status = "error"
                /\ d.sandbox_mode = "read-only"
                /\ d.requested_sandbox_mode = "workspace-write"

\* C30, as the code has it: the response has status error and error_type
\* invalid_directory, and neither of the two mode keys.
C30_InvalidDirectoryWithoutModes ==
    \A t \in DOMAIN call :
        RejectedWriteRequest(t) =>
            \E d \in ReturnedDicts(t) :
                /\ reply[t].returned = JsonDumps(d)
                /\ d.status = "error"
                /\ d.error_type = "invalid_directory"
                /\ d.sandbox_mode = Absent
                /\ d.requested_sandbox_mode = Absent

-----------------------------------------------------------------------------
(* The times of an entry (under Spec) *)

\* C31: the entry a set leaves under its key, new or overwritten, has
\* timestamp and last_accessed both at the time of the call and holds the
\* value passed; every stored entry has last_accessed >= timestamp.
C31_SetStampsBothTimes ==
    /\ \A i \in DOMAIN cache : cache[i].last_accessed >= cache[i].timestamp
    /\ last.op = "set"
          => \E i \in DOMAIN cache :
                 /\ cache[i].key = last.key
                 /\ cache[i].timestamp = last.at
                 /\ cache[i].last_accessed = last.at
                 /\ cache[i].result = last.value

\* A set that overwrote an entry stored in an earlier second and read since
C31_Witness ==
    /\ last.op = "set"
    /\ last.replaced # NoEntry
    /\ last.replaced.timestamp < last.at
    /\ last.replaced.last_accessed > last.replaced.timestamp

-----------------------------------------------------------------------------
(* What get changes (under Spec) *)

\* C32: a get that hits returns the value of the entry under its key and
\* changes the last_accessed of that entry only: its timestamp, its value,
\* its place and every other entry stay; a get whose key is not stored
\* changes nothing.
C32_GetTouchesOnlyAccessTime ==
    [][last'.op = "get"
       => /\ last'.ret # None
               => /\ Len(cache') = Len(cache)
                  /\ \A i \in DOMAIN cache :
                         IF cache[i].key = last'.key
                         THEN /\ cache'[i].key = cache[i].key
                              /\ cache'[i].timestamp = cache[i].timestamp
                              /\ cache'[i].result = cache[i].result
                              /\ cache'[i].result = last'.ret
                              /\ cache'[i].last_accessed = now
                         ELSE cache'[i] = cache[i]
          /\ (\A i \in DOMAIN cache : cache[i].key # last'.key) => cache' = cache]_vars

\* A hit, in a later second than the set, on one of two stored entries
C32_Witness ==
    /\ last.op = "get"
    /\ last.ret # None
    /\ Len(cache) = 2
    /\ \E i \in DOMAIN cache : /\ cache[i].key = last.key
                               /\ cache[i].last_accessed > cache[i].timestamp

-----------------------------------------------------------------------------
(* A cache that is swept beside one that is not (SweepSpec) *)

\* The ttl and the last second of the two caches, and their capacity: this
\* one, or one more than the number of keys, a capacity they never reach
SweepTTL == 2
SweepCapacity == 2
SweepMaxTime == 3

\* Two ResultCache objects are given the same calls of set and get at the
\* same times: cache, on which cleanup_expired is never called, and
\* last.swept, on which it is called at arbitrary points. last holds the
\* last call, what it returned from either and what set evicted from cache.
NoSweep ==
    [op |-> "none", key |-> NoKey, ret |-> None, swept_ret |-> None,
     removed |-> NoEntry, swept |-> <<>>]

SweepInit ==
    /\ cache = <<>>
    /\ ttl = SweepTTL
    /\ max_size \in {SweepCapacity, Cardinality(SetParams) + 1}
    /\ now = 0
    /\ fs = [d \in Dirs |-> "A"]
    /\ last = NoSweep
    /\ environ = None
    /\ pc = <<>>
    /\ call = <<>>
    /\ inv = <<>>
    /\ proc = <<>>
    /\ reply = <<>>

\* set on both caches
SweepSet(p) ==
    LET r == CacheSet(cache, p, "R1")
        q == CacheSet(last.swept, p, "R1")
    IN /\ cache' = r.cache
       /\ last' = [op |-> "set", key |-> r.key, ret |-> None, swept_ret |-> None,
                   removed |-> r.removed, swept |-> q.cache]
       /\ UNCHANGED <<ttl, max_size, now, fs, taskVars>>

\* get on both caches
SweepGet(p) ==
    LET r == CacheGet(cache, p)
        q == CacheGet(last.swept, p)
    IN /\ cache' = r.cache
       /\ last' = [op |-> "get", key |-> r.key, ret |-> r.ret, swept_ret |-> q.ret,
                   removed |-> NoEntry, swept |-> q.cache]
       /\ UNCHANGED <<ttl, max_size, now, fs, taskVars>>

\* cleanup_expired on the swept cache
Sweep ==
    /\ last' = [last EXCEPT !.op = "cleanup_expired", !.ret = None, !.swept_ret = None,
                            !.removed = NoEntry,
                            !.swept = SelectSeq(@, LAMBDA e : ~Expired(e))]
    /\ UNCHANGED <<cache, ttl, max_size, now, fs, taskVars>>

\* A second passes for both
SweepTick ==
    /\ now < SweepMaxTime
    /\ now' = now + 1
    /\ last' = [NoSweep EXCEPT !.swept = last.swept]
    /\ UNCHANGED <<cache, ttl, max_size, fs, taskVars>>

DoSweepSet == \E p \in SetParams : SweepSet(p)

DoSweepGet == \E p \in SetParams : SweepGet(p)

SweepNext ==
    \/ DoSweepSet
    \/ DoSweepGet
    \/ Sweep
    \/ SweepTick

SweepSpec == SweepInit /\ [][SweepNext]_vars

\* C33: every get returns from the cache that is never swept what it
\* returns from the cache that is swept at arbitrary points.
C33_SweepNeutral ==
    last.op = "get" => last.ret = last.swept_ret

\* C33, as the code has it: the same for caches that never reach their
\* capacity.
C33_SweepNeutralBelowCapacity ==
    (last.op = "get" /\ max_size > Cardinality(SetParams)) => last.ret = last.swept_ret

\* C35: a set that evicts an entry that has not expired leaves no expired
\* entry in the cache.
C35_EvictsExpiredFirst ==
    (last.op = "set" /\ last.removed # NoEntry /\ now - last.removed.timestamp <= ttl)
        => \A i \in DOMAIN cache : now - cache[i].timestamp <= ttl

-----------------------------------------------------------------------------
(* codex_delegate over a directory that changes (ChangingDirSpec) *)

ChangingDirInit ==
    /\ cache = <<>>
    /\ ttl = MaxTTL
    /\ max_size = MaxCapacity
    /\ now = 0
    /\ fs = [d \in Dirs |-> "A"]
    /\ last = NoCall
    /\ environ \in {None, "TRUE"}
    /\ pc = [t \in DelegateTasks |-> "idle"]
    /\ call = [t \in DelegateTasks |-> NoDelegate]
    /\ inv = [t \in DelegateTasks |-> NoInvocation]
    /\ proc = [t \in DelegateTasks |-> NoProcess]
    /\ reply = [t \in DelegateTasks |-> NoReply]

\* The files of a working directory change: someone edits them, or the
\* tool does while it runs
ChangeDir ==
    /\ \E d \in Dirs, tree \in Trees :
          /\ fs[d] # tree
          /\ fs' = [fs EXCEPT ![d] = tree]
    /\ UNCHANGED <<cache, ttl, max_size, now, last, environ, pc, call, inv, proc, reply>>

ChangingDirNext ==
    \/ DoCodexDelegate
    \/ InvocationStep
    \/ DoNextRequest
    \/ ChangeDir

ChangingDirSpec == ChangingDirInit /\ [][ChangingDirNext]_vars

\* C34: the store of a codex_delegate call uses the key its lookup used:
\* the result is stored under the fingerprint of the directory state the
\* lookup saw.
C34_StoredUnderLookupFingerprint ==
    [][(last.op = "get" /\ last'.op = "set") => last'.key = last.key]_vars

\* C34, as the code has it: the same when the directory is, at the store,
\* as it was at the lookup.
C34_StoredUnderLookupFingerprintIfUnchanged ==
    [][(last.op = "get" /\ last'.op = "set" /\ last'.dir = last.dir)
          => last'.key = last.key]_vars

-----------------------------------------------------------------------------
(* Two overlapping calls with the same parameters (under ConcurrentSpec) *)

\* Both tasks looked up the same parameters and missed, launched, and have
\* stored; the store of one of them has just returned
BothStored ==
    /\ \A t \in ConcurrentTasks :
          /\ pc[t] = "done"
          /\ call[t].active
          /\ ~CacheHit(call[t].cached_result)
          /\ call[t].stored # NoParams
          /\ call[t].cache_error = None
    /\ \A t, u \in ConcurrentTasks : call[t].looked_up = call[u].looked_up
    /\ last.op = "set"

\* What the claim says of the cache after both stores, but for the capacity
OneEntryOfLastStore ==
    /\ \A t \in ConcurrentTasks :
          /\ inv[t].events # <<>>
          /\ inv[t].events[1] = "spawn"
          /\ inv[t].outcome.kind = "success"
    /\ Cardinality({i \in DOMAIN cache : cache[i].key = last.key}) = 1
    /\ \A i \in DOMAIN cache : cache[i].key = last.key => cache[i].result = last.value
    /\ \E t \in ConcurrentTasks : reply[t].returned = last.value
    /\ \A t \in ConcurrentTasks : ParamsOf(last.key) = call[t].stored

\* C36: after two overlapping calls with the same parameters have both
\* stored, each having missed and launched its own process, the cache
\* holds one entry under their key, with the result stored last, and at
\* most max_size entries.
C36_OverlappingCallsOneEntry ==
    BothStored => (OneEntryOfLastStore /\ Len(cache) <= max_size)

\* C36, as the code has it: the same, the capacity bound for a capacity of
\* at least 1.
C36_OverlappingCallsOneEntryPositiveCapacity ==
    BothStored => (OneEntryOfLastStore /\ (max_size >= 1 => Len(cache) <= max_size))

-----------------------------------------------------------------------------
(* The order of the file records (OrderSpec) *)

\* Trees with a top-level file whose name sorts after the paths of the
\* files in the subdirectories
DeepFileNames == {"a.py", "z.py"}
DeepPaths == {"a.py", "z.py", "x/c.py", "y/c.py"}

DeepTrees ==
    {t \in [files : Listings(DeepFileNames), dirs : Listings(SubdirNames),
            sub : [SubdirNames -> Listings(SubFileNames)],
            content : [DeepPaths -> {FileContent}], encodable : {TRUE},
            unreadable : {{}}] :
        \A n \in SubdirNames :
            t.sub[n] = IF n \in Range(t.dirs) THEN <<"c.py">> ELSE <<>>}

\* The order of Python's string comparison on the relative paths
PathRank(path) ==
    CASE path = "a.py" -> 1
      [] path = "b.py" -> 2
      [] path = "x/c.py" -> 3
      [] path = "y/c.py" -> 4
      [] path = "z.py" -> 5
      [] OTHER -> 6

\* The relative paths of the files of a tree
TreePaths(tree) ==
    Range(tree.files)
        \cup {d \o "/" \o f : d \in Range(tree.dirs), f \in SubFileNames}

\* The records of the paths S of a tree in sorted-path order
RECURSIVE SortedPathRecords(_, _)
SortedPathRecords(tree, S) ==
    IF S = {}
    THEN <<>>
    ELSE LET first == CHOOSE path \in S :
                          \A q \in S : PathRank(path) <= PathRank(q)
         IN <<first \o ":" \o Md5(tree.content[first])>>
            \o SortedPathRecords(tree, S \ {first})

OrderInit ==
    /\ cache = <<>>
    /\ ttl = MaxTTL
    /\ max_size = MaxCapacity
    /\ now = 0
    /\ fs \in [HashDirs -> DeepTrees]
    /\ last = NoDigests
    /\ environ = None
    /\ pc = <<>>
    /\ call = <<>>
    /\ inv = <<>>
    /\ proc = <<>>
    /\ reply = <<>>

OrderNext ==
    \/ DoHashDirectory
    \/ Clock

OrderSpec == OrderInit /\ [][OrderNext]_vars

\* C37: the digest is that of the file records joined in the sorted order of
\* their relative paths over the whole tree, the files of the nested
\* directories included.
C37_RecordsInSortedPathOrder ==
    \A d \in HashDirs :
        last.digest[d] # None =>
            last.digest[d] =
                "sha256(" \o Join(SortedPathRecords(fs[d], TreePaths(fs[d]))) \o ")"

\* C37, as the code has it: the digest is that of the sorted records where
\* no top-level file sorts after a file of a subdirectory and the
\* subdirectories are listed in sorted order.
C37_RecordsInWalkOrder ==
    \A d \in HashDirs :
        (/\ last.digest[d] # None
         /\ ("z.py" \in Range(fs[d].files) => fs[d].dirs = <<>>)
         /\ fs[d].dirs # <<"y", "x">>) =>
            last.digest[d] =
                "sha256(" \o Join(SortedPathRecords(fs[d], TreePaths(fs[d]))) \o ")"


-----------------------------------------------------------------------------
(* Entries the fingerprint does not track (UntrackedSpec) *)

\* The directory that changes holds two tracked files, a.py and x/c.py, of
\* which the first is written.
\* Beside them come and go a hidden file, a compiled file, a file that
\* cannot be opened, and a file inside a noise directory and inside a hidden
\* directory.
WatchedDir == "/w"
TrackedPaths == {"a.py", "x/c.py"}
WrittenPaths == {"a.py"}
UntrackedFileNames == {".env", "m.pyc", "u.py"}
UnreadableNames == {"u.py"}
UntrackedDirNames == {"node_modules", ".venv"}
UntrackedPaths ==
    UntrackedFileNames \cup {n \o "/c.py" : n \in UntrackedDirNames}

BaseTree ==
    [files |-> <<"a.py">>, dirs |-> <<"x">>,
     sub |-> [n \in {"x"} \cup UntrackedDirNames |->
                 IF n = "x" THEN <<"c.py">> ELSE <<>>],
     content |-> [path \in TrackedPaths \cup UntrackedPaths |-> FileContent],
     encodable |-> TRUE, unreadable |-> {}]

\* The untracked paths a tree holds
UntrackedIn(tree) ==
    (Range(tree.files) \cap UntrackedFileNames)
        \cup {n \o "/c.py" : n \in {k \in UntrackedDirNames : tree.sub[k] # <<>>}}

\* The other content
Edited(content) == IF content = FileContent THEN "x = 2" ELSE FileContent

\* s without the name
Without(s, name) == SelectSeq(s, LAMBDA e : e # name)

\* No digest computed yet
NoFingerprint ==
    [op |-> "none", digest |-> "", tracked |-> [path \in TrackedPaths |-> ""],
     skipped |-> 0]

UntrackedInit ==
    /\ cache = <<>>
    /\ ttl = MaxTTL
    /\ max_size = MaxCapacity
    /\ now = 0
    /\ fs = [d \in HashDirs |-> BaseTree]
    /\ last = NoFingerprint
    /\ environ = None
    /\ pc = <<>>
    /\ call = <<>>
    /\ inv = <<>>
    /\ proc = <<>>
    /\ reply = <<>>

\* The tree of the watched directory becomes t
Becomes(t) ==
    /\ fs' = [fs EXCEPT ![WatchedDir] = t]
    /\ UNCHANGED <<cache, ttl, max_size, now, last, environ, pc, call, inv, proc, reply>>

\* A hidden, compiled or unreadable file is created at the top
CreateUntrackedFile(name) ==
    LET t == fs[WatchedDir]
    IN /\ name \notin Range(t.files)
       /\ Becomes([t EXCEPT !.files = Append(@, name),
                            !.unreadable = IF name \in UnreadableNames
                                           THEN @ \cup {name} ELSE @])

\* A noise or hidden directory is created
CreateUntrackedDir(n) ==
    LET t == fs[WatchedDir]
    IN /\ n \notin Range(t.dirs)
       /\ Becomes([t EXCEPT !.dirs = Append(@, n)])

\* A file is created inside a noise or hidden directory
CreateInside(n) ==
    LET t == fs[WatchedDir]
    IN /\ n \in Range(t.dirs)
       /\ t.sub[n] = <<>>
       /\ Becomes([t EXCEPT !.sub[n] = <<"c.py">>])

\* An untracked file is written
ChangeUntracked(path) ==
    LET t == fs[WatchedDir]
    IN /\ path \in UntrackedIn(t)
       /\ Becomes([t EXCEPT !.content[path] = Edited(@)])

\* An untracked file at the top is deleted
DeleteUntrackedFile(name) ==
    LET t == fs[WatchedDir]
    IN /\ name \in Range(t.files)
       /\ Becomes([t EXCEPT !.files = Without(@, name),
                            !.unreadable = @ \ {name},
                            !.content[name] = FileContent])

\* A noise or hidden directory is deleted with what it holds
DeleteUntrackedDir(n) ==
    LET t == fs[WatchedDir]
    IN /\ n \in Range(t.dirs)
       /\ Becomes([t EXCEPT !.dirs = Without(@, n),
                            !.sub[n] = <<>>,
                            !.content[n \o "/c.py"] = FileContent])

\* A tracked file is written
ChangeTracked(path) ==
    LET t == fs[WatchedDir]
    IN Becomes([t EXCEPT !.content[path] = Edited(@)])

\* A call of _calculate_directory_hash on the watched directory
Fingerprint ==
    LET t == fs[WatchedDir]
    IN /\ last' = [op |-> "hash",
                   digest |-> DirectoryHash(t),
                   tracked |-> [path \in TrackedPaths |-> t.content[path]],
                   skipped |-> Cardinality(UntrackedIn(t))]
       /\ UNCHANGED <<cache, ttl, max_size, now, fs, environ, pc, call, inv, proc, reply>>

DoCreateUntrackedFile == \E name \in UntrackedFileNames : CreateUntrackedFile(name)
DoCreateUntrackedDir == \E n \in UntrackedDirNames : CreateUntrackedDir(n)
DoCreateInside == \E n \in UntrackedDirNames : CreateInside(n)
DoChangeUntracked == \E path \in UntrackedPaths : ChangeUntracked(path)
DoDeleteUntrackedFile == \E name \in UntrackedFileNames : DeleteUntrackedFile(name)
DoDeleteUntrackedDir == \E n \in UntrackedDirNames : DeleteUntrackedDir(n)
DoChangeTracked == \E path \in WrittenPaths : ChangeTracked(path)

UntrackedNext ==
    \/ DoCreateUntrackedFile
    \/ DoCreateUntrackedDir
    \/ DoCreateInside
    \/ DoChangeUntracked
    \/ DoDeleteUntrackedFile
    \/ DoDeleteUntrackedDir
    \/ DoChangeTracked
    \/ Fingerprint

UntrackedSpec == UntrackedInit /\ [][UntrackedNext]_vars

\* C38: the fingerprint depends only on the tracked, readable files: from
\* one call of _calculate_directory_hash to the next the digest is the
\* same when the tracked files hold what they held, whatever hidden
\* entries, entries of noise directories, compiled files or unreadable
\* files were created, changed or deleted in between; and the digest never
\* is the fallback, the time, for a file that cannot be opened.
C38_OnlyTrackedReadableFiles ==
    [][/\ (last.op = "hash" /\ last'.op = "hash" /\ last'.tracked = last.tracked)
              => last'.digest = last.digest
       /\ last'.op = "hash" => last'.digest # ToString(now')]_vars

\* A digest computed with all five untracked entries in the tree, an
\* unreadable file among them, equal to the digest of the bare tree
C38_Witness ==
    /\ last.op = "hash"
    /\ last.skipped = Cardinality(UntrackedPaths)
    /\ fs[WatchedDir].unreadable # {}
    /\ last.tracked = [path \in TrackedPaths |-> FileContent]
    /\ last.digest = DirectoryHash(BaseTree)


-----------------------------------------------------------------------------
(* The argument vector and the directory of the process (InvokeSpec) *)

\* The request asks for the convenience mode
FullAutoAsked(i) ==
    /\ i.execution_mode = "on-failure"
    /\ i.sandbox_mode = "workspace-write"
    /\ i.allow_write

\* C39: the argument vector is codex, exec, -C, the working directory, the
\* policy flags, "--" and the prompt; its flags hold "--full-auto" and no
\* "-s" exactly when the execution mode is on-failure, the sandbox mode
\* workspace-write and allow_write true, and otherwise end with "-s" and
\* the sandbox mode given and hold no "--full-auto"; and the process is
\* launched in the working directory.
C39_ArgumentVector ==
    \A t \in DOMAIN inv :
        inv[t] # NoInvocation =>
            LET command == inv[t].command
                n == Len(command)
                flags == SubSeq(command, 5, n - 2)
                k == Len(flags)
            IN /\ n >= 7
               /\ SubSeq(command, 1, 4) = <<"codex", "exec", "-C", inv[t].working_directory>>
               /\ SubSeq(command, n - 1, n) = <<"--", inv[t].prompt>>
               /\ IF FullAutoAsked(inv[t])
                  THEN /\ flags[k] = "--full-auto"
                       /\ \A j \in 1..k : flags[j] # "-s"
                       /\ \A j \in 1..(k - 1) : flags[j] # "--full-auto"
                  ELSE /\ k >= 2
                       /\ SubSeq(flags, k - 1, k) = <<"-s", inv[t].sandbox_mode>>
                       /\ \A j \in 1..k : flags[j] # "--full-auto"
                       /\ \A j \in 1..(k - 2) : flags[j] # "-s"
               /\ proc[t].state # "none" => proc[t].cwd = inv[t].working_directory

\* C39 witness: a process runs in the working directory, launched with
\* "--full-auto" as its only policy flag.
C39_Witness ==
    \E t \in DOMAIN inv :
        /\ proc[t].state = "running"
        /\ proc[t].cwd = inv[t].working_directory
        /\ FullAutoAsked(inv[t])
        /\ inv[t].command = <<"codex", "exec", "-C", inv[t].working_directory,
                              "--full-auto", "--", inv[t].prompt>>


-----------------------------------------------------------------------------
(* The cause of a launch that fails (InvokeSpec) *)

\* C40: a call of invoke_codex_cli ends with the tool-not-found outcome only
\* when the codex binary is missing; a launch that fails for another reason,
\* such as a working directory that no longer exists, does not.
C40_ToolNotFoundOnlyIfMissing ==
    \A t \in DOMAIN inv :
        inv[t].outcome.kind = "tool-not-found" => inv[t].events = <<"no codex">>

\* C40, as the code has it: the tool-not-found outcome is that of a launch
\* that raised FileNotFoundError, for the binary or for the directory.
C40_ToolNotFoundIfLaunchFailed ==
    \A t \in DOMAIN inv :
        inv[t].outcome.kind = "tool-not-found" =>
            inv[t].events \in {<<"no codex">>, <<"no cwd">>}


====
